---- MODULE Spec2Model ----
(***************************************************************************)
(* cqlmigrate: a model of the migration orchestrator (Migrator.start), the *)
(* lock (Lock.acquire / Lock.release), the script models (CqlFile,         *)
(* Bootstrap, Migration, Init), and the lexer / canonicalizer behind the   *)
(* stored checksum.                                                        *)
(***************************************************************************)
EXTENDS Integers, Sequences, FiniteSets, TLC

(***************************************************************************)
(* Bounds of the model.                                                    *)
(***************************************************************************)
\* the clock (new Date()) takes the values 0..MaxClock
MaxClock == 1

(***************************************************************************)
(* Characters. A text is a sequence of one-character strings.              *)
(***************************************************************************)
Digits == {"0", "1", "2", "3", "4", "5", "6", "7", "8", "9"}

LowerHex == {"a", "b", "c", "d", "e", "f"}

Letters ==
    LowerHex \cup
    {"g", "h", "i", "j", "k", "l", "m", "n", "o", "p", "q", "r", "s", "t",
     "u", "v", "w", "x", "y", "z",
     "A", "B", "C", "D", "E", "F", "G", "H", "I", "J", "K", "L", "M", "N",
     "O", "P", "Q", "R", "S", "T", "U", "V", "W", "X", "Y", "Z"}

\* the class \w of the identifierOrValue pattern, [a-zA-Z0-9_]
WordChars == Letters \cup Digits \cup {"_"}

\* the class [a-f0-9] of the uuid pattern
HexChars == LowerHex \cup Digits

\* the class \s (the members a text of the model can contain)
SpaceChars == {" ", "\t", "\n", "\r"}

\* the characters '.' does not match
LineTerminators == {"\n", "\r"}

(***************************************************************************)
(* Lexer (lib/Lexer.ts). Every Match operator gives the position of the    *)
(* last character of the match that starts at position i, or 0 when the    *)
(* pattern does not match there.                                           *)
(***************************************************************************)
\* the scan of a string body: (?:[^q]|qq)* followed by the closing q. A
\* doubled delimiter is consumed greedily; when the text ends without a
\* closing delimiter the match backs up to the first delimiter of the last
\* doubled pair (lastPair).
RECURSIVE StringScan(_, _, _, _)
StringScan(s, j, q, lastPair) ==
    IF j > Len(s) THEN lastPair
    ELSE IF s[j] # q THEN StringScan(s, j + 1, q, lastPair)
    ELSE IF j + 1 <= Len(s) /\ s[j + 1] = q THEN StringScan(s, j + 2, q, j)
    ELSE j

\* stringPattern: '...' or "..."
MatchString(s, i) ==
    IF s[i] \in {"'", "\""} THEN StringScan(s, i + 1, s[i], 0) ELSE 0

\* the first position j >= from with s[j] = "*" and s[j+1] = "/", or 0
RECURSIVE BlockClose(_, _)
BlockClose(s, j) ==
    IF j + 1 > Len(s) THEN 0
    ELSE IF s[j] = "*" /\ s[j + 1] = "/" THEN j + 1
    ELSE BlockClose(s, j + 1)

\* the last position of the line that holds position j ('.*')
RECURSIVE LineEnd(_, _)
LineEnd(s, j) ==
    IF j + 1 <= Len(s) /\ s[j + 1] \notin LineTerminators
    THEN LineEnd(s, j + 1)
    ELSE j

\* commentPattern: blockComment | slashComment | dashComment
MatchComment(s, i) ==
    LET two == i + 1 <= Len(s)
        block == IF two /\ s[i] = "/" /\ s[i + 1] = "*"
                 THEN BlockClose(s, i + 2) ELSE 0
    IN  IF block # 0 THEN block
        ELSE IF two /\ s[i] = "/" /\ s[i + 1] = "/" THEN LineEnd(s, i + 1)
        ELSE IF two /\ s[i] = "-" /\ s[i + 1] = "-" THEN LineEnd(s, i + 1)
        ELSE 0

\* the positions of the dashes of the uuid pattern, relative to its start
UuidDashes == {8, 13, 18, 23}

\* the length of the uuid pattern 8-4-4-4-12
UuidLen == 36

MatchUuid(s, i) ==
    IF /\ i + UuidLen - 1 <= Len(s)
       /\ \A k \in 0..(UuidLen - 1) :
             IF k \in UuidDashes THEN s[i + k] = "-"
             ELSE s[i + k] \in HexChars
    THEN i + UuidLen - 1
    ELSE 0

\* the last position of the run of characters of class cls that starts at i
RECURSIVE RunEnd(_, _, _)
RunEnd(s, j, cls) ==
    IF j + 1 <= Len(s) /\ s[j + 1] \in cls THEN RunEnd(s, j + 1, cls) ELSE j

MatchWhitespace(s, i) == IF s[i] \in SpaceChars THEN RunEnd(s, i, SpaceChars) ELSE 0

\* a rule for symbols that lists the punctuation of CQL comments
MatchSymbolListed(s, i) == IF s[i] \in { "-", "/", "*" } THEN i ELSE 0

MatchSymbol(s, i) == IF s[i] \notin WordChars THEN i ELSE 0

MatchIdentifierOrValue(s, i) == IF s[i] \in WordChars THEN RunEnd(s, i, WordChars) ELSE 0

\* the token at position i of a lexer whose rule for symbols comes before
\* its rule for whitespace
NextTokenSymbolFirst(s, i) ==
    LET str == MatchString(s, i)
        com == MatchComment(s, i)
        uid == MatchUuid(s, i)
        wsp == MatchWhitespace(s, i)
        sym == MatchSymbol(s, i)
        idv == MatchIdentifierOrValue(s, i)
        tok(t, e) == [type |-> t, value |-> SubSeq(s, i, e), end |-> e]
    IN  IF str # 0 THEN tok("string", str)
        ELSE IF com # 0 THEN tok("comment", com)
        ELSE IF uid # 0 THEN tok("uuid", uid)
        ELSE IF sym # 0 THEN tok("symbol", sym)
        ELSE IF wsp # 0 THEN tok("whitespace", wsp)
        ELSE IF idv # 0 THEN tok("identifierOrValue", idv)
        ELSE tok("error", 0)

\* the token at position i: the first class, in the order of the rules
\* given to moo.compile, whose pattern matches there
NextToken(s, i) ==
    LET str == MatchString(s, i)
        com == MatchComment(s, i)
        uid == MatchUuid(s, i)
        wsp == MatchWhitespace(s, i)
        sym == MatchSymbol(s, i)
        idv == MatchIdentifierOrValue(s, i)
        tok(t, e) == [type |-> t, value |-> SubSeq(s, i, e), end |-> e]
    IN  IF str # 0 THEN tok("string", str)
        ELSE IF com # 0 THEN tok("comment", com)
        ELSE IF uid # 0 THEN tok("uuid", uid)
        ELSE IF wsp # 0 THEN tok("whitespace", wsp)
        ELSE IF sym # 0 THEN tok("symbol", sym)
        ELSE IF idv # 0 THEN tok("identifierOrValue", idv)
        ELSE tok("error", 0)

optionalTokenTypes == {"comment", "whitespace"}

\* Lexer.getTokens: the tokens of cql from position i on, without the
\* token types of ignore. A position nothing matches makes moo throw:
\* the result is then the one token "error".
RECURSIVE TokensFrom(_, _, _)
TokensFrom(s, i, ignore) ==
    IF i > Len(s) THEN << >>
    ELSE LET t == NextToken(s, i)
         IN  IF t.type = "error" THEN << [type |-> "error", value |-> << >>] >>
             ELSE (IF t.type \in ignore THEN << >>
                   ELSE << [type |-> t.type, value |-> t.value] >>)
                  \o TokensFrom(s, t.end + 1, ignore)

getTokens(cql, ignore) == TokensFrom(cql, 1, ignore)

getRequiredTokens(cql) == getTokens(cql, optionalTokenTypes)

\* Array.prototype.join(' ') over the token values
RECURSIVE JoinValues(_)
JoinValues(toks) ==
    IF toks = << >> THEN << >>
    ELSE IF Len(toks) = 1 THEN toks[1].value
    ELSE toks[1].value \o << " " >> \o JoinValues(Tail(toks))

\* a canonical form that keeps the comments
canonicalizeKeepComments(text) == JoinValues(getTokens(text, { "whitespace" }))

\* util.canonicalizeCql
canonicalizeCql(cql) == JoinValues(getRequiredTokens(cql))

\* util.getCqlChecksum in the runs: the MD5 digest is not computed there;
\* the digest of a text is the text under the tag "md5", so that equal
\* digests mean equal input.  The digest itself is computed below.
getCqlChecksum(input) == << "md5" >> \o input

(***************************************************************************)
(* The digest itself: crypto.createHash('md5').update(input).digest('hex') *)
(* is the MD5 of RFC 1321 over the UTF-8 bytes of the input, written as    *)
(* hex.  A 32-bit word is the pair << high, low >> of its 16-bit halves,   *)
(* so that no sum or product leaves the integers of the checker.  A text   *)
(* is a sequence of characters; the characters are those below U+0080,     *)
(* whose UTF-8 encoding is the one byte of their code.                     *)
(***************************************************************************)
\* hash.update(input): the UTF-8 bytes of a string
Utf8(text) ==
    LET \* the printable characters in the order of their codes from 32
        \* (the grave accent, code 96, is left out)
        Ascii ==
            << " ", "!", "\"", "#", "$", "%", "&", "'", "(", ")", "*", "+", ",", "-", ".", "/",
               "0", "1", "2", "3", "4", "5", "6", "7", "8", "9", ":", ";", "<", "=", ">", "?",
               "@", "A", "B", "C", "D", "E", "F", "G", "H", "I", "J", "K", "L", "M", "N", "O",
               "P", "Q", "R", "S", "T", "U", "V", "W", "X", "Y", "Z", "[", "\\", "]", "^", "_",
               "", "a", "b", "c", "d", "e", "f", "g", "h", "i", "j", "k", "l", "m", "n", "o",
               "p", "q", "r", "s", "t", "u", "v", "w", "x", "y", "z", "{", "|", "}", "~" >>
        CharByte(c) ==
            IF c = "\n" THEN 10 ELSE IF c = "\t" THEN 9 ELSE IF c = "\r" THEN 13
            ELSE 31 + (CHOOSE k \in 1..Len(Ascii) : Ascii[k] = c)
    IN  [k \in 1..Len(text) |-> CharByte(text[k])]

\* a bitwise operation on two numbers of n bits
RECURSIVE Bitwise(_, _, _, _)
Bitwise(op, a, b, n) ==
    IF n = 0 THEN 0
    ELSE LET x == a % 2
             y == b % 2
             bit == CASE op = "and" -> x * y
                      [] op = "or" -> x + y - (x * y)
                      [] op = "xor" -> (x + y) % 2
         IN  bit + (2 * Bitwise(op, a \div 2, b \div 2, n - 1))

WordOp(op, v, w) == << Bitwise(op, v[1], w[1], 16), Bitwise(op, v[2], w[2], 16) >>

\* addition modulo 2^32
WordAdd(v, w) ==
    LET low == v[2] + w[2]
        high == v[1] + w[1] + (low \div 65536)
    IN  << high % 65536, low % 65536 >>

\* rotation to the left by s bits, 0 < s < 32
RotateLeft(v, s) ==
    LET u == IF s >= 16 THEN << v[2], v[1] >> ELSE v
        t == s % 16
    IN  IF t = 0 THEN u
        ELSE << ((u[1] * (2^t)) % 65536) + (u[2] \div (2^(16 - t))),
                ((u[2] * (2^t)) % 65536) + (u[1] \div (2^(16 - t))) >>

\* the table T of RFC 1321: floor(2^32 * abs(sin(i))), i = 1..64
SineTable ==
    <<
      << 55146, 42104 >>, << 59591, 46934 >>, << 9248, 28891 >>, << 49597, 52974 >>,
      << 62844, 4015 >>, << 18311, 50730 >>, << 43056, 17939 >>, << 64838, 38145 >>,
      << 27008, 39128 >>, << 35652, 63407 >>, << 65535, 23473 >>, << 35164, 55230 >>,
      << 27536, 4386 >>, << 64920, 29075 >>, << 42617, 17294 >>, << 18868, 2081 >>,
      << 63006, 9570 >>, << 49216, 45888 >>, << 9822, 23121 >>, << 59830, 51114 >>,
      << 54831, 4189 >>, << 580, 5203 >>, << 55457, 59009 >>, << 59347, 64456 >>,
      << 8673, 52710 >>, << 49975, 2006 >>, << 62677, 3463 >>, << 17754, 5357 >>,
      << 43491, 59653 >>, << 64751, 41976 >>, << 26479, 729 >>, << 36138, 19594 >>,
      << 65530, 14658 >>, << 34673, 63105 >>, << 28061, 24866 >>, << 64997, 14348 >>,
      << 42174, 59972 >>, << 19422, 53161 >>, << 63163, 19296 >>, << 48831, 48240 >>,
      << 10395, 32454 >>, << 60065, 10234 >>, << 54511, 12421 >>, << 1160, 7429 >>,
      << 55764, 53305 >>, << 59099, 39397 >>, << 8098, 31992 >>, << 50348, 22117 >>,
      << 62505, 8772 >>, << 17194, 65431 >>, << 43924, 9127 >>, << 64659, 41017 >>,
      << 25947, 22979 >>, << 36620, 52370 >>, << 65519, 62589 >>, << 34180, 24017 >>,
      << 28584, 32335 >>, << 65068, 59104 >>, << 41729, 17172 >>, << 19976, 4513 >>,
      << 63315, 32386 >>, << 48442, 62005 >>, << 10967, 53947 >>, << 60294, 54161 >> >>

\* step i (0..63) of RFC 1321 over the 16 words of a block, from the
\* working state r = << A, B, C, D >>
Md5Step(i, r, block) ==
    LET Shifts ==
            << << 7, 12, 17, 22 >>, << 5, 9, 14, 20 >>, << 4, 11, 16, 23 >>, << 6, 10, 15, 21 >> >>
        Not(v) == << 65535 - v[1], 65535 - v[2] >>
        b == r[2]
        c == r[3]
        d == r[4]
        f == CASE i \div 16 = 0 -> WordOp("or", WordOp("and", b, c), WordOp("and", Not(b), d))
               [] i \div 16 = 1 -> WordOp("or", WordOp("and", d, b), WordOp("and", Not(d), c))
               [] i \div 16 = 2 -> WordOp("xor", WordOp("xor", b, c), d)
               [] i \div 16 = 3 -> WordOp("xor", c, WordOp("or", b, Not(d)))
        g == CASE i \div 16 = 0 -> i
               [] i \div 16 = 1 -> ((5 * i) + 1) % 16
               [] i \div 16 = 2 -> ((3 * i) + 5) % 16
               [] i \div 16 = 3 -> (7 * i) % 16
        sum == WordAdd(WordAdd(r[1], f), WordAdd(SineTable[i + 1], block[g + 1]))
    IN  << d, WordAdd(b, RotateLeft(sum, Shifts[(i \div 16) + 1][(i % 4) + 1])), b, c >>

\* the padding: the bit 1, zeros up to 56 modulo 64, the length in bits
\* as 64 bits, low byte first
Padded(bytes) ==
    LET n == Len(bytes)
        zeros == (55 - n) % 64
        bits == 8 * n
    IN  bytes \o << 128 >> \o [k \in 1..zeros |-> 0]
          \o << bits % 256, (bits \div 256) % 256, (bits \div 65536) % 256,
                bits \div 16777216, 0, 0, 0, 0 >>

\* the 16 words of the k-th block, low byte first
BlockWords(padded, k) ==
    [j \in 1..16 |->
        LET at == (64 * (k - 1)) + (4 * (j - 1))
        IN  << padded[at + 3] + (256 * padded[at + 4]),
               padded[at + 1] + (256 * padded[at + 2]) >>]

\* the initial state 67452301 efcdab89 98badcfe 10325476
Md5Init == << << 26437, 8961 >>, << 61389, 43913 >>, << 39098, 56574 >>, << 4146, 21622 >> >>

\* the bytes of a word in hex, high byte first
HexWordBigEndian(v) ==
    LET HexDigits == << "0", "1", "2", "3", "4", "5", "6", "7",
                        "8", "9", "a", "b", "c", "d", "e", "f" >>
        HexByte(n) == << HexDigits[(n \div 16) + 1], HexDigits[(n % 16) + 1] >>
    IN  HexByte(v[1] \div 256) \o HexByte(v[1] % 256)
          \o HexByte(v[2] \div 256) \o HexByte(v[2] % 256)

\* the bytes of a word in hex, low byte first
HexWord(v) ==
    LET HexDigits == << "0", "1", "2", "3", "4", "5", "6", "7",
                        "8", "9", "a", "b", "c", "d", "e", "f" >>
        HexByte(n) == << HexDigits[(n \div 16) + 1], HexDigits[(n % 16) + 1] >>
    IN  HexByte(v[2] % 256) \o HexByte(v[2] \div 256)
          \o HexByte(v[1] % 256) \o HexByte(v[1] \div 256)

\* digest('hex') of the chaining value
Md5Hex(h) == HexWord(h[1]) \o HexWord(h[2]) \o HexWord(h[3]) \o HexWord(h[4])

\* the fixed strings of the test 'Checksum' and the checksums it expects
ChecksumVectors ==
    { [input |->
          << "t", "h", "i", "s", " ", "i", "s", " ", "s", "o", "m", "e", " ", "s", "t", "r", "i", "n", "g" >>,
       checksum |->
          << "0", "e", "1", "e", "b", "6", "6", "3", "a", "d", "4", "c", "b", "b", "7", "0", "b", "7", "d", "2", "6", "2", "f", "8", "1", "3", "b", "f", "b", "e", "c", "4" >>],
      [input |->
          << "t", "h", "i", "s", " ", "i", "s", " ", "a", "n", "o", "t", "h", "e", "r", " ", "s", "t", "r", "i", "n", "g" >>,
       checksum |->
          << "7", "c", "d", "1", "1", "3", "6", "e", "b", "2", "6", "e", "a", "5", "8", "d", "5", "a", "c", "6", "7", "6", "2", "1", "6", "8", "d", "b", "7", "f", "7", "f" >>],
      [input |->
          << "f", "o", "o", " ", "b", "a", "r", " ", "b", "a", "z" >>,
       checksum |->
          << "a", "b", "0", "7", "a", "c", "b", "b", "1", "e", "4", "9", "6", "8", "0", "1", "9", "3", "7", "a", "d", "f", "a", "7", "7", "2", "4", "2", "4", "b", "f", "7" >>] }

\* String.prototype.split(';')
RECURSIVE SplitFrom(_, _, _)
SplitFrom(s, i, cur) ==
    IF i > Len(s) THEN << cur >>
    ELSE IF s[i] = ";" THEN << cur >> \o SplitFrom(s, i + 1, << >>)
    ELSE SplitFrom(s, i + 1, Append(cur, s[i]))

SplitCommands(body) == SplitFrom(body, 1, << >>)

\* /^[\s]*$/.test(command)
IsBlank(command) == \A k \in 1..Len(command) : command[k] \in SpaceChars

(***************************************************************************)
(* The files on disk. A path below the migration root is its directory     *)
(* segments and its base name; base names are written without the          *)
(* extension .cql (getFilePaths keeps only .cql files).                    *)
(***************************************************************************)
\* the UTF-16 order of the characters file names are made of
CharOrder == << "0", "1", "2", "3", "4", "5", "6", "7", "8", "9", "b", "c" >>

CharCode(c) == CHOOSE k \in 1..Len(CharOrder) : CharOrder[k] = c

\* a.file < b.file on JavaScript strings
RECURSIVE StrLess(_, _)
StrLess(a, b) ==
    IF b = << >> THEN FALSE
    ELSE IF a = << >> THEN TRUE
    ELSE IF Head(a) = Head(b) THEN StrLess(Tail(a), Tail(b))
    ELSE CharCode(Head(a)) < CharCode(Head(b))

\* config: initFilename, bootstrapFilename (as base names of the model)
initFilename == << "c" >>

bootstrapFilename == << "b" >>

Path(dir, base) == [dir |-> dir, base |-> base]

InitPath == Path(<< >>, initFilename)

\* two keyspaces with a bootstrap each; service s1 of foo has the two
\* migrations "10" and "9" ("10" < "9" lexically), the service of bar has
\* the one migration "10"; a file one level too deep and a file beside the
\* bootstrap are not classified
TreeOf(barService) ==
    { InitPath,
      Path(<< "foo" >>, bootstrapFilename),
      Path(<< "foo", "s1" >>, << "1", "0" >>),
      Path(<< "foo", "s1" >>, << "9" >>),
      Path(<< "bar" >>, bootstrapFilename),
      Path(<< "bar", barService >>, << "1", "0" >>),
      Path(<< "bar" >>, << "9" >>),
      Path(<< "foo", "s1", "old" >>, << "1", "0" >>) }

\* one keyspace with its bootstrap and one migration
LockTree ==
    { InitPath,
      Path(<< "foo" >>, bootstrapFilename),
      Path(<< "foo", "s1" >>, << "1", "0" >>) }

\* the file contents of the model: one statement, the same with other
\* whitespace and a comment, another statement, two statements with an
\* empty one between them
RawA == << "a", ";" >>

RawAComment == << "a", " ", ";", "-", "-", "x" >>

RawB == << "b", ";" >>

RawAB == << "a", ";", ";", "b", ";" >>

RawBodies == { RawA, RawAComment, RawB }

\* the file whose content changes between runs: a run finds it with any
\* of the contents RawBodies
EditablePath == Path(<< "foo", "s1" >>, << "1", "0" >>)

\* the content of the files when the edited file holds raw
Disk(files, raw) ==
    [path \in files |->
        IF path = EditablePath THEN raw
        ELSE IF path = Path(<< "foo", "s1" >>, << "9" >>) THEN RawAB
        ELSE RawA]

(***************************************************************************)
(* Values.                                                                 *)
(***************************************************************************)
\* null, and a value that is not null
Null == << >>

Some(v) == << v >>

\* the client ids (Lock.ts: one random uuid per process)
Procs == { "p1", "p2" }

NoClient == "none"

\* the value of agreement in the runs that do not follow the cluster
NotFollowed == "any"

VARIABLES
    tree,             \* the paths of the .cql files below the migration root
    now,              \* the clock read by new Date()
    locks,            \* cqlmigrate.locks: the client of the row MIGRATION_LOCK, or NoClient
    migrationsTable,  \* cqlmigrate.migrations: a set of rows
    bootstrapsTable,  \* cqlmigrate.bootstraps: a set of rows
    pc,               \* where each process is in Migrator.start
    exitCode,         \* the code given to process.exit, Null before
    migrations,       \* Migrator.migrations of each process: entries in insertion order
    tasks,            \* the applies in flight (or settled) of each process
    migrationFailed,  \* the flag of applyMigrations
    caught,           \* the error start() caught and logged last, Null before
    round,            \* history: the passes of the loop of applyMigrations begun
    agreedAfter,      \* history: the pass after which a schema check last returned
                      \* true (0 after the bootstraps), -1 before
    agreement,        \* what a call of checkSchemaAgreement ends in at this moment
                      \* ("true", "false", "throw") where the cluster is followed
                      \* (SpecWait), and NotFollowed where every check finds any
                      \* of Probes
    cqlBefore,        \* the content of a migration file when it was applied
    cqlNow,           \* the content of that file now
    reloaded,         \* the Migration a later run has made of it, after its
                      \* apply() was called; Null before
    hash,             \* the Hash object of a call of getCqlChecksum: its input,
                      \* the block and step it is at, the chaining value h,
                      \* the working state r and the digest; Null where no
                      \* checksum is followed
    insertion         \* a call of CassandraClient.insert: its arguments and,
                      \* once it has ended, what it threw or the query it
                      \* executed; Null where no call is followed

vars == << tree, now, locks, migrationsTable, bootstrapsTable, pc, exitCode,
           migrations, tasks, migrationFailed, caught, round, agreedAfter,
           agreement, cqlBefore, cqlNow, reloaded, hash, insertion >>

memVars == << migrations, tasks, migrationFailed, round, agreedAfter >>

dbVars == << locks, migrationsTable, bootstrapsTable >>

lexVars == << cqlBefore, cqlNow, reloaded >>

envVars == << tree, now, agreement, lexVars, hash, insertion >>

(***************************************************************************)
(* Script models (models/CqlFile.ts, Bootstrap.ts, Migration.ts, Init.ts). *)
(* One record shape serves the three classes: service and checksum are     *)
(* fields of a Migration only. st and idx are the position of apply():     *)
(* st is "save1", "exec", "save2", "done", "skipped" or "failed", idx the  *)
(* number of commands executed. round (the pass of applyMigrations that    *)
(* called apply(), 0 for a bootstrap) and failedAt (the step of apply()    *)
(* that threw) are history.                                                *)
(***************************************************************************)
Segments(path) == Append(path.dir, path.base)

\* getFileDepth
getFileDepth(path) == Len(Segments(path)) - 1

bootstrapDepth == 1

migrationDepth == 2

\* CqlFile constructor followed by CqlFile.init (loadAndCanonicalizeFile)
CqlFile(kind, keyspace, service, file, content) ==
    [ kind |-> kind, keyspace |-> keyspace, service |-> service, file |-> file,
      fileBody |-> canonicalizeCql(content),
      appliedOn |-> Null, checksum |-> Null, success |-> FALSE,
      st |-> "new", idx |-> 0, round |-> 0, failedAt |-> "" ]

NewInit(path, content) == CqlFile("init", "", "", path.base, content)

\* a Bootstrap whose keyspace is read at the index of the file
NewBootstrapKeyspaceAtFileIndex(path, content) ==
    CqlFile("bootstrap", Segments(path)[2], "", Segments(path)[2], content)

NewBootstrap(path, content) ==
    CqlFile("bootstrap", Segments(path)[1], "", Segments(path)[2], content)

NewMigration(path, content) ==
    CqlFile("migration", Segments(path)[1], Segments(path)[2], Segments(path)[3], content)

\* the rows of cqlmigrate.migrations with the primary key of m
RowsOf(table, m) ==
    { r \in table : /\ r.keyspace_name = m.keyspace
                    /\ r.service = m.service
                    /\ r.file = m.file }

\* Migration.fillFromDatastoreIfExists
fillFromDatastoreIfExists(m, table) ==
    IF RowsOf(table, m) = {} THEN m
    ELSE LET row == CHOOSE r \in RowsOf(table, m) : TRUE
         IN  [m EXCEPT !.appliedOn = row.applied_on,
                       !.checksum = row.checksum,
                       !.success = row.success]

\* Migration.getInsertableObject
MigrationRow(m) ==
    [ keyspace_name |-> m.keyspace, service |-> m.service, file |-> m.file,
      body |-> m.fileBody, applied_on |-> m.appliedOn, checksum |-> m.checksum,
      success |-> m.success ]

\* Bootstrap.getInsertableObject
BootstrapRow(b) ==
    [ keyspace_name |-> b.keyspace, applied_on |-> b.appliedOn, file |-> b.file,
      body |-> b.fileBody, success |-> b.success ]

\* INSERT into cqlmigrate.migrations, PRIMARY KEY ((keyspace_name), service, file)
InsertMigration(table, row) ==
    { r \in table : ~ ( /\ r.keyspace_name = row.keyspace_name
                        /\ r.service = row.service
                        /\ r.file = row.file ) } \cup { row }

\* an INSERT into a table of bootstraps whose primary key is the keyspace
\* alone: a keyspace has one row
InsertBootstrapByKeyspace(table, row) ==
    { r \in table : r.keyspace_name # row.keyspace_name } \cup { row }

\* INSERT into cqlmigrate.bootstraps, PRIMARY KEY ((keyspace_name), applied_on)
InsertBootstrap(table, row) ==
    { r \in table : ~ ( /\ r.keyspace_name = row.keyspace_name
                        /\ r.applied_on = row.applied_on ) } \cup { row }

\* the loop of CqlFile.apply without the test of the segment: every
\* segment is executed
CommandsUntested(body) == SplitCommands(body)

\* the commands CqlFile.apply executes: the segments of the body that are
\* not whitespace only
Commands(body) == SelectSeq(SplitCommands(body), LAMBDA c : ~ IsBlank(c))

\* apply() without its first save(): it goes straight to the commands
BeginApplyUnsaved(f, date) ==
    LET g == [f EXCEPT !.appliedOn = Some(date)]
    IN  IF Len(Commands(g.fileBody)) = 0
        THEN [g EXCEPT !.appliedOn = Some(date), !.success = TRUE, !.st = "save2"]
        ELSE [g EXCEPT !.st = "exec"]

\* CqlFile.apply up to its first await: appliedOn = new Date(), save() issued
BeginApply(f, date) == [f EXCEPT !.appliedOn = Some(date), !.st = "save1"]

\* CqlFile.apply after the last command: appliedOn = new Date(),
\* success = true, save() issued
BeginSecondSave(f, date) ==
    [f EXCEPT !.appliedOn = Some(date), !.success = TRUE, !.st = "save2"]

\* CqlFile.apply once the first save() has returned
AfterFirstSave(f, date) ==
    IF Len(Commands(f.fileBody)) = 0 THEN BeginSecondSave(f, date)
    ELSE [f EXCEPT !.st = "exec"]

\* CqlFile.apply once one more command has been executed
AfterCommand(f, date) ==
    IF f.idx + 1 = Len(Commands(f.fileBody))
    THEN BeginSecondSave([f EXCEPT !.idx = f.idx + 1], date)
    ELSE [f EXCEPT !.idx = f.idx + 1]

\* an await of apply() throws at step
Throw(f, step) == [f EXCEPT !.st = "failed", !.failedAt = step]

\* Migration.apply without the test of success: every migration is applied
MigrationApplyAgain(m, date) ==
    BeginApply([m EXCEPT !.checksum = getCqlChecksum(m.fileBody)], date)

\* Migration.apply without the comparison of the checksums: a migration
\* with success = true is skipped
MigrationApplyUncompared(m, date) ==
    IF m.success = TRUE THEN [m EXCEPT !.st = "skipped"]
    ELSE BeginApply([m EXCEPT !.checksum = getCqlChecksum(m.fileBody)], date)

\* Migration.apply up to its first await
MigrationApply(m, date) ==
    IF m.success = TRUE
    THEN IF m.checksum # getCqlChecksum(m.fileBody)
         THEN Throw(m, "checksum")
         ELSE [m EXCEPT !.st = "skipped"]
    ELSE BeginApply([m EXCEPT !.checksum = getCqlChecksum(m.fileBody)], date)

(***************************************************************************)
(* Migrator (the orchestrator): loadFiles.                                 *)
(***************************************************************************)
\* Map.has, and the Map.set / Map.get(...).push of loadFiles; a Map keeps
\* its entries in insertion order
MapHas(map, service) == \E k \in 1..Len(map) : map[k].service = service

MapPush(map, service, m) ==
    IF MapHas(map, service)
    THEN [k \in 1..Len(map) |->
            IF map[k].service = service
            THEN [map[k] EXCEPT !.list = Append(@, m)]
            ELSE map[k]]
    ELSE Append(map, [service |-> service, list |-> << m >>])

\* Map.delete
MapDelete(map, service) == SelectSeq(map, LAMBDA e : e.service # service)

\* the comparator of loadFiles
CompareFile(a, b) ==
    IF StrLess(a.file, b.file) THEN -1
    ELSE IF StrLess(b.file, a.file) THEN 1
    ELSE 0

\* Array.prototype.sort with that comparator (a stable sort)
RECURSIVE InsertSorted(_, _)
InsertSorted(sorted, m) ==
    IF sorted = << >> THEN << m >>
    ELSE IF CompareFile(m, Head(sorted)) < 0 THEN << m >> \o sorted
    ELSE << Head(sorted) >> \o InsertSorted(Tail(sorted), m)

\* the lists left in the order of the walk
SortByFileOmitted(list) == list

RECURSIVE SortByFile(_)
SortByFile(list) ==
    IF list = << >> THEN << >>
    ELSE InsertSorted(SortByFile(SubSeq(list, 1, Len(list) - 1)), list[Len(list)])

SortAll(map) == [k \in 1..Len(map) |-> [map[k] EXCEPT !.list = SortByFile(@)]]

\* loadFiles without its refusal test
FailedBeforeUntested(m) == FALSE

\* the refusal test of loadFiles
FailedBefore(m) == m.success = FALSE /\ m.appliedOn # Null

\* a first loop of loadFiles that takes every file with the name of the
\* bootstrap for a bootstrap, at whatever depth
RECURSIVE LoadFromByName(_, _, _, _, _, _)
LoadFromByName(ord, i, bs, ms, table, content) ==
    IF i > Len(ord) THEN [failed |-> FALSE, bootstraps |-> bs, migrations |-> ms]
    ELSE LET path == ord[i]
         IN  IF path.base = bootstrapFilename /\ Len(path.dir) >= 1
             THEN LoadFromByName(ord, i + 1,
                                 Append(bs, NewBootstrap(path, content[path])),
                                 ms, table, content)
             ELSE IF Len(path.dir) = 2
             THEN LET m == fillFromDatastoreIfExists(
                               NewMigration(path, content[path]), table)
                  IN  IF m.success = FALSE /\ m.appliedOn # Null
                      THEN [failed |-> TRUE, bootstraps |-> bs, migrations |-> ms]
                      ELSE LoadFromByName(ord, i + 1, bs, MapPush(ms, m.service, m),
                                          table, content)
             ELSE LoadFromByName(ord, i + 1, bs, ms, table, content)

\* the first loop of loadFiles over the walk order ord, from its i-th file
RECURSIVE LoadFrom(_, _, _, _, _, _)
LoadFrom(ord, i, bs, ms, table, content) ==
    IF i > Len(ord) THEN [failed |-> FALSE, bootstraps |-> bs, migrations |-> ms]
    ELSE LET path == ord[i]
         IN  IF path.base = bootstrapFilename /\ getFileDepth(path) = bootstrapDepth
             THEN LoadFrom(ord, i + 1, Append(bs, NewBootstrap(path, content[path])),
                           ms, table, content)
             ELSE IF getFileDepth(path) = migrationDepth
             THEN LET m == fillFromDatastoreIfExists(
                               NewMigration(path, content[path]), table)
                  IN  IF FailedBefore(m)
                      THEN [failed |-> TRUE, bootstraps |-> bs, migrations |-> ms]
                      ELSE LoadFrom(ord, i + 1, bs, MapPush(ms, m.service, m),
                                    table, content)
             ELSE LoadFrom(ord, i + 1, bs, ms, table, content)

\* loadFiles that leaves out the bootstrap of a keyspace for which a
\* migration has been recorded by an earlier run
loadFilesBootstrapsOnce(ord, table, content) ==
    LET r == LoadFrom(ord, 1, << >>, << >>, table, content)
    IN  IF r.failed THEN r
        ELSE [r EXCEPT !.migrations = SortAll(@),
                       !.bootstraps = SelectSeq(@, LAMBDA b :
                           \A row \in table : row.keyspace_name # b.keyspace)]

\* loadFiles: the first loop, then the sort of every list
loadFiles(ord, table, content) ==
    LET r == LoadFrom(ord, 1, << >>, << >>, table, content)
    IN  IF r.failed THEN r ELSE [r EXCEPT !.migrations = SortAll(@)]

\* an enumeration of a set, and the orders the walk of the root yields in
\* the model: that enumeration and its reverse
RECURSIVE SetToSeq(_)
SetToSeq(S) ==
    IF S = {} THEN << >>
    ELSE LET x == CHOOSE y \in S : TRUE IN << x >> \o SetToSeq(S \ {x})

Reverse(seq) == [k \in 1..Len(seq) |-> seq[Len(seq) + 1 - k]]

getFilePaths(files) == { SetToSeq(files), Reverse(SetToSeq(files)) }

(***************************************************************************)
(* CassandraClient.checkSchemaAgreement.                                   *)
(***************************************************************************)
SchemaVersions == { "v1", "v2" }

\* a column schema_version: null or a version
VersionCells == { Null } \cup { Some(v) : v \in SchemaVersions }

\* the rows of system.local: none or one
LocalRows == { << >> } \cup { << [schema_version |-> c] >> : c \in VersionCells }

\* system.peers has at most MaxPeers rows
MaxPeers == 1

\* the rows of system.peers
PeerRows == UNION { [1..n -> [schema_version : VersionCells]] : n \in 0..MaxPeers }

\* what the two queries of one check find; fails: one of them throws
Probes ==
    [fails : { FALSE }, local : LocalRows, peers : PeerRows]
        \cup { [fails |-> TRUE, local |-> << >>, peers |-> << >>] }

\* ResultSet.first
first(rows) == IF rows = << >> THEN Null ELSE Some(rows[1])

\* "true", "false", or "throw": a query failed, or toString() was called on
\* the null schema_version of a peer
checkSchemaAgreement(probe) ==
    IF probe.fails THEN "throw"
    ELSE LET localRow == first(probe.local)
         IN  IF localRow = Null \/ localRow[1].schema_version = Null THEN "false"
             ELSE IF \E k \in 1..Len(probe.peers) : probe.peers[k].schema_version = Null
             THEN "throw"
             ELSE LET versions ==
                          { localRow[1].schema_version[1] } \cup
                          { probe.peers[k].schema_version[1] : k \in 1..Len(probe.peers) }
                  IN  IF Cardinality(versions) <= 1 THEN "true" ELSE "false"

(***************************************************************************)
(* Migrator: the schedulers.                                               *)
(***************************************************************************)
Settled(t) == t.st \in { "done", "skipped", "failed" }

AllSettled(T) == \A t \in T : Settled(t)

InFlight(T) == { t \in T : ~ Settled(t) }

\* a pass that shifts the head of the first list only
RECURSIVE ShiftHeadsFirstList(_, _, _, _, _)
ShiftHeadsFirstList(values, k, map, date, pass) ==
    IF k > 1 \/ k > Len(values) THEN [tasks |-> { }, migrations |-> map]
    ELSE LET migration == Head(values[k].list)
             left == Tail(values[k].list)
             shifted == [e \in 1..Len(map) |->
                           IF map[e].service = values[k].service
                           THEN [map[e] EXCEPT !.list = left] ELSE map[e]]
             kept == IF Len(left) = 0 THEN MapDelete(shifted, migration.service)
                     ELSE shifted
             rest == ShiftHeadsFirstList(values, k + 1, kept, date, pass)
         IN  [tasks |-> { MigrationApply([migration EXCEPT !.round = pass], date) }
                            \cup rest.tasks,
              migrations |-> rest.migrations]

\* one pass of the loop of applyMigrations up to its first await: the head
\* of every list is shifted and its apply() called; a list that became
\* empty has its key deleted
RECURSIVE ShiftHeads(_, _, _, _, _)
ShiftHeads(values, k, map, date, pass) ==
    IF k > Len(values) THEN [tasks |-> { }, migrations |-> map]
    ELSE LET migration == Head(values[k].list)
             left == Tail(values[k].list)
             shifted == [e \in 1..Len(map) |->
                           IF map[e].service = values[k].service
                           THEN [map[e] EXCEPT !.list = left] ELSE map[e]]
             kept == IF Len(left) = 0 THEN MapDelete(shifted, migration.service)
                     ELSE shifted
             rest == ShiftHeads(values, k + 1, kept, date, pass)
         IN  [tasks |-> { MigrationApply([migration EXCEPT !.round = pass], date) }
                            \cup rest.tasks,
              migrations |-> rest.migrations]

\* a round that ends when its first apply has settled
PcAfterFirstSettled(at, T, failed) ==
    CASE at = "bootstrapping" ->
            IF \E t \in T : t.st = "failed" THEN "releaseErr"
            ELSE IF \A t \in T : t.st \in { "done", "skipped", "failed" }
            THEN "bootstrapAgree"
            ELSE at
      [] at = "round" ->
            IF \A t \in T : t.st \notin { "done", "skipped", "failed" } THEN at
            ELSE IF failed THEN "releaseErr"
            ELSE "roundAgree"
      [] OTHER -> at

\* a round that fails as soon as one of its applies has failed, the way
\* applyBootstraps does
PcAfterFirstFailure(at, T, failed) ==
    CASE at \in { "bootstrapping", "round" } ->
            IF \E t \in T : t.st = "failed" THEN "releaseErr"
            ELSE IF \A t \in T : t.st \in { "done", "skipped", "failed" }
            THEN (IF at = "round" THEN "roundAgree" ELSE "bootstrapAgree")
            ELSE at
      [] OTHER -> at

\* applyBootstraps with callbacks that catch the error and do not rethrow
\* it: the phase ends when every apply has settled
PcAfterBootstrapsSettled(at, T, failed) ==
    CASE at = "bootstrapping" ->
            IF \A t \in T : t.st \in { "done", "skipped", "failed" }
            THEN "bootstrapAgree"
            ELSE at
      [] at = "round" ->
            IF \E t \in T : t.st \notin { "done", "skipped", "failed" } THEN at
            ELSE IF failed THEN "releaseErr"
            ELSE "roundAgree"
      [] OTHER -> at

\* applyMigrations without the test of its flag after a round: a round
\* whose applies have all settled is followed by the wait for agreement
PcAfterFailureIgnored(at, T, failed) ==
    CASE at = "bootstrapping" ->
            IF \E t \in T : t.st = "failed" THEN "releaseErr"
            ELSE IF \A t \in T : t.st \in { "done", "skipped", "failed" }
            THEN "bootstrapAgree"
            ELSE at
      [] at = "round" ->
            IF \E t \in T : t.st \notin { "done", "skipped", "failed" } THEN at
            ELSE "roundAgree"
      [] OTHER -> at

\* where Migrator.start stands once the applies T of the phase at have
\* changed: Promise.all of applyBootstraps rejects at the first failure
\* and resolves when all are done; Promise.all of applyMigrations resolves
\* when every apply has settled, and the round fails if one has failed
PcAfter(at, T, failed) ==
    CASE at = "bootstrapping" ->
            IF \E t \in T : t.st = "failed" THEN "releaseErr"
            ELSE IF AllSettled(T) THEN "bootstrapAgree"
            ELSE at
      [] at = "round" ->
            IF ~ AllSettled(T) THEN at
            ELSE IF failed THEN "releaseErr"
            ELSE "roundAgree"
      [] OTHER -> at

\* the flag migrationFailed after the applies of a round have changed to T
FlagAfter(at, T, failed) ==
    IF at = "round" THEN failed \/ (\E t \in T : t.st = "failed") ELSE failed

\* the error start() has caught last when it moves from at to to: the
\* error of a bootstrap is rethrown, that of a round is a new one
CaughtAfter(at, to, error) ==
    IF to = "releaseErr" /\ at # "releaseErr"
    THEN Some(IF at = "round" THEN "Round of migrations failed" ELSE "driver")
    ELSE error

\* the loop head of a start() without its last line: with an empty map
\* start() returns
LoopHeadNoRelease(map, failed, date, pass, old) ==
    IF Len(map) = 0
    THEN [pc |-> "returned", tasks |-> InFlight(old), migrations |-> map,
          failed |-> failed, round |-> pass]
    ELSE LET r == ShiftHeads(map, 1, map, date, pass + 1)
             T == InFlight(old) \cup r.tasks
             f == FlagAfter("round", T, failed)
         IN  [pc |-> PcAfter("round", T, f), tasks |-> T,
              migrations |-> r.migrations, failed |-> f, round |-> pass + 1]

\* the loop head of applyMigrations after pass passes, with the applies old
\* begun before: with an empty map the function returns and start() goes
\* on to releaseLockAndExit(); if not, a round is formed
LoopHead(map, failed, date, pass, old) ==
    IF Len(map) = 0
    THEN [pc |-> "releaseEnd", tasks |-> InFlight(old), migrations |-> map,
          failed |-> failed, round |-> pass]
    ELSE LET r == ShiftHeads(map, 1, map, date, pass + 1)
             T == InFlight(old) \cup r.tasks
             f == FlagAfter("round", T, failed)
         IN  [pc |-> PcAfter("round", T, f), tasks |-> T,
              migrations |-> r.migrations, failed |-> f, round |-> pass + 1]

(***************************************************************************)
(* The state machine.                                                      *)
(***************************************************************************)
NoMemory(p) ==
    /\ migrations' = [migrations EXCEPT ![p] = << >>]
    /\ tasks' = [tasks EXCEPT ![p] = { }]
    /\ migrationFailed' = [migrationFailed EXCEPT ![p] = FALSE]
    /\ round' = [round EXCEPT ![p] = 0]
    /\ agreedAfter' = [agreedAfter EXCEPT ![p] = -1]

InitWith(files) ==
    /\ tree = files
    /\ now = 0
    /\ locks = NoClient
    /\ migrationsTable = { }
    /\ bootstrapsTable = { }
    /\ pc = [p \in Procs |-> "init"]
    /\ exitCode = [p \in Procs |-> Null]
    /\ migrations = [p \in Procs |-> << >>]
    /\ tasks = [p \in Procs |-> { }]
    /\ migrationFailed = [p \in Procs |-> FALSE]
    /\ caught = [p \in Procs |-> Null]
    /\ round = [p \in Procs |-> 0]
    /\ agreedAfter = [p \in Procs |-> -1]

\* no file is followed through an edit, and no checksum through its steps
NoText ==
    /\ cqlBefore = << >> /\ cqlNow = << >> /\ reloaded = Null
    /\ hash = Null /\ insertion = Null

Init == InitWith(TreeOf("s2")) /\ agreement = NotFollowed /\ NoText

\* time passes
Tick ==
    /\ now < MaxClock
    /\ now' = now + 1
    /\ UNCHANGED << tree, agreement, lexVars, hash, insertion, dbVars, pc, exitCode, memVars, caught >>

\* a kill after which the row of the process lapses, as a row written with
\* a time to live would
KillExpires(p) ==
    /\ pc[p] \notin { "exited", "returned", "killed" }
    /\ pc' = [pc EXCEPT ![p] = "killed"]
    /\ locks' = IF locks = p THEN NoClient ELSE locks
    /\ NoMemory(p)
    /\ UNCHANGED << envVars, migrationsTable, bootstrapsTable, exitCode, caught >>

\* the process is killed by a signal
Kill(p) ==
    /\ pc[p] \notin { "exited", "returned", "killed" }
    /\ pc' = [pc EXCEPT ![p] = "killed"]
    /\ NoMemory(p)
    /\ UNCHANGED << envVars, dbVars, exitCode, caught >>

\* process.exit(code), after start() has caught and logged error
Exit(p, code, error) ==
    /\ pc' = [pc EXCEPT ![p] = "exited"]
    /\ exitCode' = [exitCode EXCEPT ![p] = Some(code)]
    /\ caught' = [caught EXCEPT ![p] = error]
    /\ NoMemory(p)

\* init() with an Init whose save() records the script the way
\* Migration.save does
InitLoadRecorded(p, readable) ==
    /\ pc[p] = "init"
    /\ IF ~ readable \/ InitPath \notin tree
       THEN /\ Exit(p, 1, Some("Error loading init file"))
            /\ UNCHANGED dbVars
       ELSE LET f == AfterFirstSave(BeginApply(NewInit(InitPath, Disk(tree, RawA)[InitPath]), now), now)
            IN  /\ pc' = [pc EXCEPT ![p] = IF f.st = "exec" THEN "initApply" ELSE "acquire"]
                /\ tasks' = [tasks EXCEPT ![p] = IF f.st = "exec" THEN { f } ELSE { }]
                /\ migrationsTable' = InsertMigration(migrationsTable, MigrationRow(f))
                /\ UNCHANGED << locks, bootstrapsTable, exitCode, migrations,
                                migrationFailed, caught, round, agreedAfter >>
    /\ UNCHANGED envVars

\* Migrator.init: the init file is loaded and its apply() begun; Init.save
\* does nothing, so apply() goes straight to the commands. A failure is
\* caught by start(), which exits with 1.
InitLoad(p, readable) ==
    /\ pc[p] = "init"
    /\ IF ~ readable \/ InitPath \notin tree
       THEN Exit(p, 1, Some("Error loading init file"))
       ELSE LET f == AfterFirstSave(BeginApply(NewInit(InitPath, Disk(tree, RawA)[InitPath]), now), now)
            IN  /\ pc' = [pc EXCEPT ![p] = IF f.st = "exec" THEN "initApply" ELSE "acquire"]
                /\ tasks' = [tasks EXCEPT ![p] = IF f.st = "exec" THEN { f } ELSE { }]
                /\ UNCHANGED << exitCode, migrations, migrationFailed, caught,
                                round, agreedAfter >>
    /\ UNCHANGED << envVars, dbVars >>

\* a start() whose first catch block logs the error of init() and goes on
InitExecNoExit(p, ok) ==
    /\ pc[p] = "initApply"
    /\ \E f \in tasks[p] :
          LET g == IF ok THEN AfterCommand(f, now) ELSE [f EXCEPT !.st = "failed"]
          IN  /\ pc' = [pc EXCEPT ![p] = IF g.st = "exec" THEN "initApply" ELSE "acquire"]
              /\ tasks' = [tasks EXCEPT ![p] = IF g.st = "exec" THEN { g } ELSE { }]
              /\ caught' = [caught EXCEPT ![p] =
                               IF ok THEN @ ELSE Some("Error applying the init file")]
              /\ UNCHANGED << exitCode, migrations, migrationFailed, round, agreedAfter >>
    /\ UNCHANGED << envVars, dbVars >>

\* one command of the init file is executed
InitExec(p, ok) ==
    /\ pc[p] = "initApply"
    /\ \E f \in tasks[p] :
          IF ~ ok
          THEN Exit(p, 1, Some("Error applying the init file"))
          ELSE LET g == AfterCommand(f, now)
               IN  /\ pc' = [pc EXCEPT ![p] = IF g.st = "exec" THEN "initApply" ELSE "acquire"]
                   /\ tasks' = [tasks EXCEPT ![p] = IF g.st = "exec" THEN { g } ELSE { }]
                   /\ UNCHANGED << exitCode, migrations, migrationFailed, caught,
                                   round, agreedAfter >>
    /\ UNCHANGED << envVars, dbVars >>

\* what a query of the lock can end in: the driver returns the result of
\* the query; it throws and the query was not applied; it throws (a
\* timeout) after the coordinator has applied the query
QueryOutcomes == { "returns", "throws", "throwsApplied" }

\* the outcomes of the DELETE of Lock.release that are followed with the
\* files of TreeOf: the driver returns, or it throws with the DELETE not
\* applied. SpecLock follows all of QueryOutcomes with the files of LockTree
ReleaseOutcomes == { "returns", "throws" }

\* acquire with a plain INSERT, which overwrites the row of another client
acquireUnconditional(client, outcome, row) ==
    [locks |-> IF outcome = "throws" THEN row ELSE client,
     result |-> outcome = "returns"]

\* acquire whose catch block returns true
acquireCatchTrue(client, outcome, row) ==
    [locks |-> IF outcome # "throws" /\ row = NoClient THEN client ELSE row,
     result |-> outcome # "returns" \/ row = NoClient]

\* Lock.acquire: INSERT ... IF NOT EXISTS; wasApplied() of the result when
\* the driver returns, false when it throws. The INSERT of a call that
\* throws has been applied or has not
acquire(client, outcome, row) ==
    LET inserted == outcome # "throws" /\ row = NoClient
    IN  [locks |-> IF inserted THEN client ELSE row,
         result |-> outcome = "returns" /\ inserted]

\* release with a plain DELETE, which removes the row of another client
releaseUnconditional(client, outcome, row) ==
    [locks |-> IF outcome = "throws" THEN row ELSE NoClient,
     result |-> outcome = "returns" /\ row # NoClient]

\* Lock.release: DELETE ... IF client = ?; wasApplied() of the result when
\* the driver returns, false when it throws. The DELETE of a call that
\* throws has been applied or has not
release(client, outcome, row) ==
    LET deleted == outcome # "throws" /\ row = client
    IN  [locks |-> IF deleted THEN NoClient ELSE row,
         result |-> outcome = "returns" /\ deleted]

\* start() calls Lock.acquire and exits with 1 when it returns false
Acquire(p, outcome) ==
    /\ pc[p] = "acquire"
    /\ LET r == acquire(p, outcome, locks)
       IN  /\ locks' = r.locks
           /\ IF r.result
              THEN /\ pc' = [pc EXCEPT ![p] = "load"]
                   /\ UNCHANGED << exitCode, memVars, caught >>
              ELSE Exit(p, 1, Some("Failed to acquire lock, can not continue"))
    /\ UNCHANGED << envVars, migrationsTable, bootstrapsTable >>

\* Migrator.loadFiles, which finds the files in the order ord and the
\* edited file with the content raw, or fails reading (ok is false); on
\* success applyBootstraps begins every apply.
\* Migrator.bootstraps is read here only, and the lists of a failed load
\* are never read: neither is kept in the state
LoadFiles(p) ==
    /\ pc[p] = "load"
    /\ \E ok \in BOOLEAN, ord \in getFilePaths(tree), raw \in RawBodies :
       LET r == IF ok THEN loadFiles(ord, migrationsTable, Disk(tree, raw))
                ELSE [failed |-> TRUE, bootstraps |-> << >>, migrations |-> << >>]
           T == { BeginApply(r.bootstraps[k], now) : k \in 1..Len(r.bootstraps) }
       IN  /\ migrations' = [migrations EXCEPT ![p] = IF r.failed THEN << >> ELSE r.migrations]
           /\ IF r.failed
              THEN /\ pc' = [pc EXCEPT ![p] = "releaseErr"]
                   /\ tasks' = tasks
                   /\ caught' = [caught EXCEPT ![p] =
                         Some(IF ok THEN "Migration found with success=false" ELSE "driver")]
              ELSE /\ pc' = [pc EXCEPT ![p] = PcAfter("bootstrapping", T, FALSE)]
                   /\ tasks' = [tasks EXCEPT ![p] = T]
                   /\ caught' = caught
    /\ UNCHANGED << envVars, dbVars, exitCode, migrationFailed, round, agreedAfter >>

\* start() awaits the applies of process p
Awaited(p) == pc[p] \in { "bootstrapping", "round" }

\* the apply t of process p becomes u; a settled bootstrap that nothing
\* awaits any more (Promise.all of applyBootstraps has rejected) is dropped
\* from the state, one still in flight goes on
TaskStep(p, t, u) ==
    LET T == IF Awaited(p) \/ ~ Settled(u) THEN (tasks[p] \ { t }) \cup { u }
             ELSE tasks[p] \ { t }
        f == FlagAfter(pc[p], T, migrationFailed[p])
        to == PcAfter(pc[p], T, f)
    IN  /\ tasks' = [tasks EXCEPT ![p] =
                        IF pc[p] = "bootstrapping" /\ to = "releaseErr"
                        THEN InFlight(T) ELSE T]
        /\ migrationFailed' = [migrationFailed EXCEPT ![p] = f]
        /\ pc' = [pc EXCEPT ![p] = to]
        /\ caught' = [caught EXCEPT ![p] = CaughtAfter(pc[p], to, @)]
        /\ UNCHANGED << envVars, locks, exitCode, migrations, round, agreedAfter >>

Running(p) == pc[p] \notin { "exited", "killed" }

\* the row a save() of script f inserts
Saved(f) ==
    /\ migrationsTable' = IF f.kind = "migration"
                          THEN InsertMigration(migrationsTable, MigrationRow(f))
                          ELSE migrationsTable
    /\ bootstrapsTable' = IF f.kind = "bootstrap"
                          THEN InsertBootstrap(bootstrapsTable, BootstrapRow(f))
                          ELSE bootstrapsTable

\* CqlFile.apply: the first save() returns or throws
FirstSave(p, t, ok) ==
    /\ Running(p)
    /\ t \in tasks[p]
    /\ t.st = "save1"
    /\ IF ok
       THEN /\ Saved(t)
            /\ TaskStep(p, t, AfterFirstSave(t, now))
       ELSE /\ UNCHANGED << migrationsTable, bootstrapsTable >>
            /\ TaskStep(p, t, Throw(t, "save1"))

\* CqlFile.apply: one command returns or throws
ExecCommand(p, t, ok) ==
    /\ Running(p)
    /\ t \in tasks[p]
    /\ t.st = "exec"
    /\ pc[p] # "initApply"
    /\ UNCHANGED << migrationsTable, bootstrapsTable >>
    /\ IF ok
       THEN TaskStep(p, t, AfterCommand(t, now))
       ELSE TaskStep(p, t, Throw(t, "command"))

\* CqlFile.apply: the second save() returns or throws
SecondSave(p, t, ok) ==
    /\ Running(p)
    /\ t \in tasks[p]
    /\ t.st = "save2"
    /\ IF ok
       THEN /\ Saved(t)
            /\ TaskStep(p, t, [t EXCEPT !.st = "done"])
       ELSE /\ UNCHANGED << migrationsTable, bootstrapsTable >>
            /\ TaskStep(p, t, Throw(t, "save2"))

\* the wait with a limit of one check: it returns after its first check
\* that did not throw, agreement or not
CheckSchemaAgreementOnce(p, probe) ==
    /\ pc[p] \in { "bootstrapAgree", "roundAgree" }
    /\ agreement \in { NotFollowed, checkSchemaAgreement(probe) }
    /\ LET result == checkSchemaAgreement(probe)
       IN  IF result = "throw"
           THEN /\ pc' = [pc EXCEPT ![p] = "releaseErr"]
                /\ caught' = [caught EXCEPT ![p] = Some("driver")]
                /\ UNCHANGED memVars
           ELSE LET r == LoopHead(migrations[p],
                                  IF pc[p] = "bootstrapAgree" THEN FALSE
                                  ELSE migrationFailed[p], now, round[p], tasks[p])
                IN  /\ pc' = [pc EXCEPT ![p] = r.pc]
                    /\ tasks' = [tasks EXCEPT ![p] = r.tasks]
                    /\ migrations' = [migrations EXCEPT ![p] = r.migrations]
                    /\ migrationFailed' = [migrationFailed EXCEPT ![p] = r.failed]
                    /\ round' = [round EXCEPT ![p] = r.round]
                    /\ agreedAfter' = [agreedAfter EXCEPT ![p] = round[p]]
                    /\ caught' = [caught EXCEPT ![p] = CaughtAfter(pc[p], r.pc, @)]
    /\ UNCHANGED << envVars, dbVars, exitCode >>

\* one check of getSchemaAgreementPromise, after the bootstraps or after a
\* round: on false the wait polls again, on true the loop of
\* applyMigrations goes to its head, and a throw rejects the wait. Where
\* the cluster is followed the check finds what agreement says
CheckSchemaAgreement(p, probe) ==
    /\ pc[p] \in { "bootstrapAgree", "roundAgree" }
    /\ agreement \in { NotFollowed, checkSchemaAgreement(probe) }
    /\ LET result == checkSchemaAgreement(probe)
       IN  IF result = "false"
           THEN UNCHANGED << pc, memVars, caught >>
           ELSE IF result = "throw"
           THEN /\ pc' = [pc EXCEPT ![p] = "releaseErr"]
                /\ caught' = [caught EXCEPT ![p] = Some("driver")]
                /\ UNCHANGED memVars
           ELSE LET r == LoopHead(migrations[p],
                                  IF pc[p] = "bootstrapAgree" THEN FALSE
                                  ELSE migrationFailed[p], now, round[p], tasks[p])
                IN  /\ pc' = [pc EXCEPT ![p] = r.pc]
                    /\ tasks' = [tasks EXCEPT ![p] = r.tasks]
                    /\ migrations' = [migrations EXCEPT ![p] = r.migrations]
                    /\ migrationFailed' = [migrationFailed EXCEPT ![p] = r.failed]
                    /\ round' = [round EXCEPT ![p] = r.round]
                    /\ agreedAfter' = [agreedAfter EXCEPT ![p] = round[p]]
                    /\ caught' = [caught EXCEPT ![p] = CaughtAfter(pc[p], r.pc, @)]
    /\ UNCHANGED << envVars, dbVars, exitCode >>

\* releaseLockAndExit: Lock.release, then process.exit(code) if it
\* returned true. After the catch block of start() the code is 1; at the
\* end of start() it is undefined, and the process exits with 0. When
\* release returned false the function returns: from the catch block
\* start() goes on to its last line, a second releaseLockAndExit(); from
\* there start() returns. What start() never reads again (the settled
\* applies, the map, the flag) is dropped from the state
Release(p, outcome) ==
    /\ pc[p] \in { "releaseErr", "releaseEnd" }
    /\ LET r == release(p, outcome, locks)
       IN  /\ locks' = r.locks
           /\ IF r.result
              THEN Exit(p, IF pc[p] = "releaseErr" THEN 1 ELSE 0, caught[p])
              ELSE /\ pc' = [pc EXCEPT ![p] =
                                IF pc[p] = "releaseErr" THEN "releaseEnd" ELSE "returned"]
                   /\ tasks' = [tasks EXCEPT ![p] = InFlight(@)]
                   /\ migrations' = [migrations EXCEPT ![p] = << >>]
                   /\ migrationFailed' = [migrationFailed EXCEPT ![p] = FALSE]
                   /\ round' = [round EXCEPT ![p] = 0]
                   /\ agreedAfter' = [agreedAfter EXCEPT ![p] = -1]
                   /\ UNCHANGED << exitCode, caught >>
    /\ UNCHANGED << envVars, migrationsTable, bootstrapsTable >>

Next ==
    \/ Tick
    \/ \E p \in Procs : Kill(p)
    \/ \E p \in Procs, readable \in BOOLEAN : InitLoad(p, readable)
    \/ \E p \in Procs, ok \in BOOLEAN : InitExec(p, ok)
    \/ \E p \in Procs, outcome \in QueryOutcomes : Acquire(p, outcome)
    \/ \E p \in Procs : LoadFiles(p)
    \/ \E p \in Procs : \E t \in tasks[p], ok \in BOOLEAN : FirstSave(p, t, ok)
    \/ \E p \in Procs : \E t \in tasks[p], ok \in BOOLEAN : ExecCommand(p, t, ok)
    \/ \E p \in Procs : \E t \in tasks[p], ok \in BOOLEAN : SecondSave(p, t, ok)
    \/ \E p \in Procs, probe \in Probes : CheckSchemaAgreement(p, probe)
    \/ \E p \in Procs, outcome \in ReleaseOutcomes : Release(p, outcome)

Spec == Init /\ [][Next]_vars

\* the runs over the files of LockTree, with every outcome of the DELETE of
\* Lock.release
InitLock == InitWith(LockTree) /\ agreement = NotFollowed /\ NoText

NextLock ==
    \/ Tick
    \/ \E p \in Procs : Kill(p)
    \/ \E p \in Procs, readable \in BOOLEAN : InitLoad(p, readable)
    \/ \E p \in Procs, ok \in BOOLEAN : InitExec(p, ok)
    \/ \E p \in Procs, outcome \in QueryOutcomes : Acquire(p, outcome)
    \/ \E p \in Procs : LoadFiles(p)
    \/ \E p \in Procs : \E t \in tasks[p], ok \in BOOLEAN : FirstSave(p, t, ok)
    \/ \E p \in Procs : \E t \in tasks[p], ok \in BOOLEAN : ExecCommand(p, t, ok)
    \/ \E p \in Procs : \E t \in tasks[p], ok \in BOOLEAN : SecondSave(p, t, ok)
    \/ \E p \in Procs, probe \in Probes : CheckSchemaAgreement(p, probe)
    \/ \E p \in Procs, outcome \in QueryOutcomes : Release(p, outcome)

SpecLock == InitLock /\ [][NextLock]_vars

\* the runs over the files of the README layout, where the two keyspaces
\* have a service directory of the same name
InitShared == InitWith(TreeOf("s1")) /\ agreement = NotFollowed /\ NoText

SpecShared == InitShared /\ [][Next]_vars

\* one run of the tool in which the cluster is followed: what a check
\* would find changes at any moment (Gossip), and every check finds it.
\* getSchemaAgreementPromise calls checkSchemaAgreement again
\* retryIntervalMs after a false, for ever: a check whose result would
\* take the process out of the wait is made if it stays possible
AgreementStates == { "true", "false", "throw" }

Gossip ==
    /\ agreement \in AgreementStates
    /\ agreement' \in AgreementStates \ { agreement }
    /\ UNCHANGED << tree, now, lexVars, hash, insertion, dbVars, pc, exitCode, memVars, caught >>

Poll(p) == \E probe \in Probes : CheckSchemaAgreement(p, probe)

\* the process of the one run
Run == CHOOSE p \in Procs : TRUE

InitWait == InitWith(TreeOf("s2")) /\ agreement \in AgreementStates /\ NoText

NextWait ==
    \/ Tick
    \/ Gossip
    \/ Kill(Run)
    \/ \E readable \in BOOLEAN : InitLoad(Run, readable)
    \/ \E ok \in BOOLEAN : InitExec(Run, ok)
    \/ \E outcome \in QueryOutcomes : Acquire(Run, outcome)
    \/ LoadFiles(Run)
    \/ \E t \in tasks[Run], ok \in BOOLEAN : FirstSave(Run, t, ok)
    \/ \E t \in tasks[Run], ok \in BOOLEAN : ExecCommand(Run, t, ok)
    \/ \E t \in tasks[Run], ok \in BOOLEAN : SecondSave(Run, t, ok)
    \/ Poll(Run)
    \/ \E outcome \in QueryOutcomes : Release(Run, outcome)

SpecWait == InitWait /\ [][NextWait]_vars /\ WF_vars(Poll(Run))

(***************************************************************************)
(* A migration file that is edited after it was applied, and the run that  *)
(* loads it again. The texts are the strings of at most MaxCql characters  *)
(* of CqlChars; an edit puts a whitespace character or a comment into the  *)
(* text, anywhere but inside a string literal.                             *)
(***************************************************************************)
CqlChars == { "a", " ", "\n", "-", "'", "/", "*" }

MaxCql == 3

RECURSIVE Texts(_)
Texts(n) ==
    IF n = 0 THEN { << >> }
    ELSE LET shorter == Texts(n - 1)
         IN  shorter \cup { Append(t, c) : t \in { u \in shorter : Len(u) = n - 1 },
                                           c \in CqlChars }

\* what an edit puts in: whitespace, a line comment with and without its
\* line break, a block comment, a block comment that holds a quote
InsertedWhitespace == { << " " >>, << "\n" >> }

InsertedComments ==
    { << "-", "-" >>, << "-", "-", "\n" >>, << "/", "*", "*", "/" >>,
      << "/", "*", "'", "*", "/" >> }

InsertAt(s, k, w) == SubSeq(s, 1, k) \o w \o SubSeq(s, k + 1, Len(s))

\* the tokens of the lexer with their places in the text
RECURSIVE SpansFrom(_, _)
SpansFrom(s, i) ==
    IF i > Len(s) THEN << >>
    ELSE LET t == NextToken(s, i)
         IN  IF t.type = "error" THEN << >>
             ELSE << [type |-> t.type, from |-> i, to |-> t.end] >> \o SpansFrom(s, t.end + 1)

Spans(s) == SpansFrom(s, 1)

\* the place between the characters k and k + 1 of s is inside a string
\* literal
InsideString(s, k) ==
    \E j \in 1..Len(Spans(s)) :
        Spans(s)[j].type = "string" /\ Spans(s)[j].from <= k /\ k < Spans(s)[j].to

\* the row a run has written that applied the file with the content text
AppliedRow(text) ==
    MigrationRow(BeginSecondSave(MigrationApply(NewMigration(EditablePath, text), 0), 0))

\* a token of s ends at place k, or k is the begin of s
Boundary(s, k) == k = 0 \/ \E j \in 1..Len(Spans(s)) : Spans(s)[j].to = k

\* in the edited text the lexer reads w, put in at place k, as whitespace
\* and comments of its own
ReadAsInserted(s, k, w) ==
    LET y == InsertAt(s, k, w)
    IN  /\ Boundary(y, k) /\ Boundary(y, k + Len(w))
        /\ \A j \in 1..Len(Spans(y)) :
              (k < Spans(y)[j].from /\ Spans(y)[j].to <= k + Len(w))
                  => Spans(y)[j].type \in optionalTokenTypes

\* the file is edited once: whitespace is put in
EditWhitespace(k, w) ==
    /\ cqlNow = cqlBefore /\ reloaded = Null
    /\ k \in 0..Len(cqlNow)
    /\ ~ InsideString(cqlNow, k)
    /\ cqlNow' = InsertAt(cqlNow, k, w)
    /\ UNCHANGED << cqlBefore, reloaded, hash, insertion, tree, now, agreement, dbVars, pc,
                    exitCode, memVars, caught >>

\* the file is edited once: a comment is put in, where the lexer reads it
\* as the comment it is (not a marker that comments out what follows it)
EditComment(k, w) ==
    /\ cqlNow = cqlBefore /\ reloaded = Null
    /\ k \in 0..Len(cqlNow)
    /\ ~ InsideString(cqlNow, k)
    /\ ReadAsInserted(cqlNow, k, w)
    /\ cqlNow' = InsertAt(cqlNow, k, w)
    /\ UNCHANGED << cqlBefore, reloaded, hash, insertion, tree, now, agreement, dbVars, pc,
                    exitCode, memVars, caught >>

\* a run loads the file: CqlFile.init canonicalizes its content,
\* fillFromDatastoreIfExists reads the row, and apply() is called
Reload ==
    /\ reloaded = Null
    /\ reloaded' = Some(MigrationApply(
                        fillFromDatastoreIfExists(NewMigration(EditablePath, cqlNow),
                                                  { AppliedRow(cqlBefore) }), now))
    /\ UNCHANGED << cqlBefore, cqlNow, hash, insertion, tree, now, agreement, dbVars, pc,
                    exitCode, memVars, caught >>

\* longer contents, after the tests of the lexer: a string literal that
\* holds whitespace, a line comment marker and a doubled quote; one that
\* holds a newline and a block comment; a string in double quotes that
\* holds a single quote; a line comment that holds the delimiters of a
\* block comment; a block comment that holds line comment markers and a
\* newline; a line comment with a closing delimiter and a block comment
\* after it; a uuid
LexerCases ==
    { << "'", " ", "-", "-", "'", "'", "a", "'" >>,
      << "'", "\n", "/", "*", "*", "/", "'" >>,
      << "\"", "'", "\"" >>,
      << "-", "-", "/", "*", "*", "/", "\n", "a" >>,
      << "/", "*", "-", "-", "\n", "/", "/", "*", "/", "a" >>,
      << "/", "/", "*", "/", " ", "/", "*", "*", "/" >>,
      [k \in 1..UuidLen |-> IF k - 1 \in UuidDashes THEN "-" ELSE "a"] }

InitLexer ==
    /\ InitWith({ EditablePath }) /\ agreement = NotFollowed
    /\ cqlBefore \in Texts(MaxCql) \cup LexerCases
    /\ cqlNow = cqlBefore /\ reloaded = Null
    /\ hash = Null /\ insertion = Null

NextLexer ==
    \/ \E k \in 0..MaxCql, w \in InsertedWhitespace : EditWhitespace(k, w)
    \/ \E k \in 0..MaxCql, w \in InsertedComments : EditComment(k, w)
    \/ Reload

SpecLexer == InitLexer /\ [][NextLexer]_vars

(***************************************************************************)
(* Runs of one process over the directories of the discovery: the init     *)
(* file and up to MaxFound files among FoundPaths, which has, at each      *)
(* depth from 0 to 3, a file with the name of the bootstrap, one with the  *)
(* name of the init file (where that is not the init file itself) and one  *)
(* with another name.                                                      *)
(***************************************************************************)
MaxFound == 2

FoundPaths ==
    { Path(dir, base) :
        dir \in { << >>, << "foo" >>, << "foo", "s1" >>, << "foo", "s1", "old" >> },
        base \in { bootstrapFilename, initFilename, << "9" >> } } \ { InitPath }

InitDiscovery ==
    /\ \E found \in SUBSET FoundPaths :
          Cardinality(found) <= MaxFound /\ InitWith({ InitPath } \cup found)
    /\ agreement \in AgreementStates /\ NoText

SpecDiscovery == InitDiscovery /\ [][NextWait]_vars

(***************************************************************************)
(* A call of getCqlChecksum followed through the blocks and steps of the   *)
(* hash: crypto.createHash('md5'), update(input), digest('hex').  The      *)
(* inputs are the fixed strings of the test 'Checksum'.                    *)
(***************************************************************************)
\* crypto.createHash('md5').update(input)
BeginHash(input) ==
    [input |-> input, block |-> 1, step |-> 0, h |-> Md5Init, r |-> Md5Init,
     digest |-> Null]

\* one step of the block the hash is at
HashStep ==
    /\ hash # Null
    /\ 64 * hash.block <= Len(Padded(Utf8(hash.input)))
    /\ hash.step < 64
    /\ hash' = [hash EXCEPT
                    !.step = @ + 1,
                    !.r = Md5Step(hash.step, @,
                                  BlockWords(Padded(Utf8(hash.input)), hash.block))]
    /\ UNCHANGED << tree, now, agreement, lexVars, insertion, dbVars, pc, exitCode,
                    memVars, caught >>

\* the end of a block: the working state is added to the chaining value
HashBlock ==
    /\ hash # Null
    /\ 64 * hash.block <= Len(Padded(Utf8(hash.input)))
    /\ hash.step = 64
    /\ LET h == [j \in 1..4 |-> WordAdd(hash.h[j], hash.r[j])]
       IN  hash' = [hash EXCEPT !.block = @ + 1, !.step = 0, !.h = h, !.r = h]
    /\ UNCHANGED << tree, now, agreement, lexVars, insertion, dbVars, pc, exitCode,
                    memVars, caught >>

\* digest('hex'), after the last block
HashDigest ==
    /\ hash # Null
    /\ 64 * hash.block > Len(Padded(Utf8(hash.input)))
    /\ hash.digest = Null
    /\ hash' = [hash EXCEPT !.digest = Some(Md5Hex(hash.h))]
    /\ UNCHANGED << tree, now, agreement, lexVars, insertion, dbVars, pc, exitCode,
                    memVars, caught >>

InitChecksum ==
    /\ InitWith({ }) /\ agreement = NotFollowed
    /\ cqlBefore = << >> /\ cqlNow = << >> /\ reloaded = Null /\ insertion = Null
    /\ \E v \in ChecksumVectors : hash = BeginHash(v.input)

NextChecksum == HashStep \/ HashBlock \/ HashDigest

SpecChecksum == InitChecksum /\ [][NextChecksum]_vars

(***************************************************************************)
(* A call of CassandraClient.insert over the records of up to MaxFields    *)
(* fields whose values are of every type typeof tells apart.  A string is  *)
(* the sequence of its pieces.                                             *)
(***************************************************************************)
MaxFields == 2

\* the values of a field: one of each primitive type, null, undefined, a
\* function, an object, and a StorableDate of each storage method
FieldValues ==
    { [kind |-> k, v |-> IF k \in { "null", "undefined" } THEN "" ELSE "1"] :
        k \in { "number", "string", "boolean", "null", "undefined", "function",
                "object", "StorableDate UUID", "StorableDate DATE_ONLY",
                "StorableDate TIMESTAMP" } }

\* the records: the keys in the order of Object.keys
Records ==
    UNION { { [k \in 1..n |-> [key |-> keys[k], value |-> values[k]]] :
                keys \in { ks \in [1..n -> { "a", "b", "c" }] :
                             \A i, j \in 1..n : ks[i] = ks[j] => i = j },
                values \in [1..n -> FieldValues] } : n \in 0..MaxFields }

\* typeof: null is of type 'object'
TypeOf(value) ==
    CASE value.kind \in { "number", "string", "boolean", "undefined", "function" } ->
            value.kind
      [] OTHER -> "object"

\* createQueryArrays that leaves out the fields that are null as well
createQueryArraysSkipNull(obj) ==
    LET kept == SelectSeq(obj, LAMBDA f :
                    f.value.kind \notin { "null", "undefined", "function" })
    IN  [fields |-> [k \in 1..Len(kept) |-> << "\"", kept[k].key, "\"" >>],
         placeholders |-> [k \in 1..Len(kept) |-> << "?" >>],
         params |-> [k \in 1..Len(kept) |-> kept[k].value]]

\* CassandraClient.createQueryArrays (fieldsEqualPlaceholders is not read
\* by insert)
createQueryArrays(obj) ==
    LET kept == SelectSeq(obj, LAMBDA f :
                    TypeOf(f.value) \in { "number", "string", "boolean", "object" })
        param(value) ==
            CASE value.kind = "StorableDate UUID" -> [kind |-> "TimeUuid", v |-> value.v]
              [] value.kind = "StorableDate DATE_ONLY" -> [kind |-> "LocalDate", v |-> value.v]
              [] value.kind = "StorableDate TIMESTAMP" -> [kind |-> "Date", v |-> value.v]
              [] OTHER -> value
    IN  [fields |-> [k \in 1..Len(kept) |-> << "\"", kept[k].key, "\"" >>],
         placeholders |-> [k \in 1..Len(kept) |-> << "?" >>],
         params |-> [k \in 1..Len(kept) |-> param(kept[k].value)]]

\* Array.prototype.join(',') of strings
RECURSIVE JoinComma(_)
JoinComma(strings) ==
    IF strings = << >> THEN << >>
    ELSE IF Len(strings) = 1 THEN strings[1]
    ELSE strings[1] \o << "," >> \o JoinComma(Tail(strings))

\* CassandraClient.insert: what it throws, or the query it executes
insert(table, record, ttl, ifNotExists) ==
    LET queryArrays == createQueryArrays(record)
    IN  IF Len(queryArrays.fields) = 0
        THEN [thrown |-> Some("Input object does not have any savable fields"),
              executed |-> Null]
        ELSE [thrown |-> Null,
              executed |-> Some(
                  [query |-> << "INSERT INTO ", table, " (" >>
                               \o JoinComma(queryArrays.fields)
                               \o << ") VALUES (" >>
                               \o JoinComma(queryArrays.placeholders)
                               \o << ")" >>
                               \o (IF ifNotExists THEN << " IF NOT EXISTS" >> ELSE << >>)
                               \o (IF ttl = Null THEN << >> ELSE << " USING TTL ", ttl[1] >>)
                               \o << ";" >>,
                   params |-> queryArrays.params])]

\* the call ends
Insert ==
    /\ insertion # Null
    /\ insertion.result = Null
    /\ insertion' = [insertion EXCEPT !.result =
                        Some(insert(insertion.table, insertion.record,
                                    insertion.ttl, insertion.ifNotExists))]
    /\ UNCHANGED << tree, now, agreement, lexVars, hash, dbVars, pc, exitCode,
                    memVars, caught >>

InitInsert ==
    /\ InitWith({ }) /\ agreement = NotFollowed
    /\ cqlBefore = << >> /\ cqlNow = << >> /\ reloaded = Null /\ hash = Null
    /\ \E record \in Records, ttl \in { Null, Some("600") }, ifNotExists \in BOOLEAN :
          insertion = [table |-> "t", record |-> record, ttl |-> ttl,
                       ifNotExists |-> ifNotExists, result |-> Null]

SpecInsert == InitInsert /\ [][Insert]_vars

(***************************************************************************)
(* Properties of the lock.                                                 *)
(***************************************************************************)
\* start() of p is between an acquire that returned true and the first
\* release it issues: in its second try block, at the releaseLockAndExit(1)
\* of its catch block, or at its last line with no error caught
HoldsLock(p) ==
    \/ pc[p] \in { "load", "bootstrapping", "bootstrapAgree", "round", "roundAgree",
                   "releaseErr" }
    \/ pc[p] = "releaseEnd" /\ caught[p] = Null

Applies(p) == { t \in tasks[p] : t.kind \in { "bootstrap", "migration" } }

AcquireFailed == Some("Failed to acquire lock, can not continue")

\* an acquire of p returns while the row of the lock exists: it returns
\* false, the row is left as it is and start() exits with 1
AcquireWhileLocked(p) ==
    (pc[p] = "acquire" /\ locks # NoClient /\ pc'[p] \notin { "acquire", "killed" })
        => /\ pc'[p] = "exited"
           /\ exitCode'[p] = Some(1)
           /\ caught'[p] = AcquireFailed
           /\ locks' = locks

\* C1: lock mutual exclusion. The table holds at most one row for the lock
\* (locks is no client or one client), at most one process is between a
\* successful acquire and its release, the row names that process, and an
\* acquire that returns while the row exists returns false.
C1_LockMutualExclusion ==
    /\ [](/\ locks \in Procs \cup { NoClient }
          /\ Cardinality({ p \in Procs : HoldsLock(p) }) <= 1
          /\ \A p \in Procs : HoldsLock(p) => locks = p)
    /\ [][\A p \in Procs : AcquireWhileLocked(p)]_vars

\* one process holds the lock and the other has exited on a failed acquire
C1_Witness ==
    \E p, q \in Procs :
        /\ HoldsLock(p) /\ locks = p
        /\ pc[q] = "exited" /\ exitCode[q] = Some(1) /\ caught[q] = AcquireFailed

\* C2: the lock is held around the work. Whenever an apply of a bootstrap
\* or a migration of a process is in flight (it will still execute a
\* statement or write a row), that process holds the lock and has not
\* issued its release: start() still awaits the applies.
C2_NoApplyInFlightAtRelease ==
    \A p \in Procs : \A t \in Applies(p) :
        ~ Settled(t) => (Awaited(p) /\ locks = p)

(***************************************************************************)
(* Properties of the order of the applies.                                 *)
(***************************************************************************)
\* the migrations of p whose apply() has not been called
Pending(p) ==
    UNION { { migrations[p][k].list[i] : i \in 1..Len(migrations[p][k].list) } :
            k \in 1..Len(migrations[p]) }

MigrationsOf(p) == { t \in tasks[p] : t.kind = "migration" }

SameStream(a, b) == a.keyspace = b.keyspace /\ a.service = b.service

\* C3: within one (keyspace, service) the migrations are applied in
\* ascending order of file: once the apply of a migration has begun, no
\* migration of the same keyspace and service with a smaller file is still
\* waiting for its apply or has its apply in flight.
C3_AscendingWithinStream ==
    \A p \in Procs : \A m2 \in MigrationsOf(p) :
        \A m1 \in Pending(p) \cup (InFlight(MigrationsOf(p)) \ { m2 }) :
            ~ (SameStream(m1, m2) /\ StrLess(m1.file, m2.file))

\* the apply of the second migration of foo/s1 has begun
C3_Witness ==
    \E p \in Procs : \E m2 \in MigrationsOf(p) :
        /\ m2.keyspace = "foo" /\ m2.service = "s1" /\ m2.file = << "9" >>
        /\ m2.st = "exec"

RoundFailed == Some("Round of migrations failed")

\* the two migrations of the first round and the one of the second
A1 == [keyspace |-> "foo", service |-> "s1", file |-> << "1", "0" >>]

B1 == [keyspace |-> "bar", service |-> "s2", file |-> << "1", "0" >>]

A2 == [keyspace |-> "foo", service |-> "s1", file |-> << "9" >>]

Is(t, m) == t.keyspace = m.keyspace /\ t.service = m.service /\ t.file = m.file

\* C4: round barrier. The applies in flight or settled that start() holds
\* were all begun by one pass of the loop, a schema check has returned
\* true after the pass before, and once the apply of a2 has begun a1 and
\* b1 are neither waiting nor in flight: their rows say success = true.
C4_RoundBarrier ==
    \A p \in Procs : \A t \in MigrationsOf(p) :
        /\ \A u \in Applies(p) : u.round < t.round => Settled(u)
        /\ \A u \in MigrationsOf(p) : u.round = t.round
        /\ t.round = round[p] /\ agreedAfter[p] = t.round - 1
        /\ Is(t, A2) =>
              \A m \in { A1, B1 } :
                  /\ \A u \in Pending(p) \cup MigrationsOf(p) : ~ Is(u, m)
                  /\ \E r \in RowsOf(migrationsTable, m) : r.success = TRUE

\* the apply of a2 is in flight in the second pass
C4_Witness ==
    \E p \in Procs : \E t \in MigrationsOf(p) :
        Is(t, A2) /\ t.st = "save1" /\ t.round = 2 /\ agreedAfter[p] = 1

\* C5: error aggregation. While the flag migrationFailed is set start() is
\* in the round or has caught its error: it never waits for schema
\* agreement and never begins another pass. When start() has caught the
\* error of a round, every apply of the round has settled, one of them has
\* failed, and all are of the last pass; after that no migration is applied.
C5_ErrorAggregation ==
    \A p \in Procs :
        /\ migrationFailed[p] => pc[p] \in { "round", "releaseErr" }
        /\ (pc[p] = "releaseErr" /\ caught[p] = RoundFailed) =>
              /\ AllSettled(MigrationsOf(p))
              /\ \E t \in MigrationsOf(p) : t.st = "failed"
              /\ \A t \in MigrationsOf(p) : t.round = round[p]
              /\ migrationFailed[p]
        /\ pc[p] \in { "releaseEnd", "returned" } => InFlight(MigrationsOf(p)) = { }
        /\ (pc[p] = "round" /\ migrationFailed[p]) =>
              \E t \in MigrationsOf(p) : t.st = "failed"

\* the round of a1 and b1 has failed: a1 failed on its checksum before b1
\* made a step, and b1 went on to its end
C5_Witness ==
    \E p \in Procs : \E t, u \in MigrationsOf(p) :
        /\ pc[p] = "releaseErr" /\ caught[p] = RoundFailed
        /\ Is(t, A1) /\ t.failedAt = "checksum"
        /\ Is(u, B1) /\ u.st = "done"

(***************************************************************************)
(* Properties of the rows of cqlmigrate.migrations.                        *)
(***************************************************************************)
\* apply() of the migration t is between its two writes, or has thrown
\* between them
BetweenWrites(t) ==
    t.st \in { "exec", "save2" } \/ t.failedAt \in { "command", "save2" }

\* t was hydrated from a row with success = true: success is true and
\* apply() has not set it
HydratedApplied(t) ==
    t.success = TRUE /\ t.st \notin { "save2", "done" } /\ t.failedAt # "save2"

\* the stored row of t is the one t was hydrated from
RowAsHydrated(t) ==
    /\ RowsOf(migrationsTable, t) # { }
    /\ \A r \in RowsOf(migrationsTable, t) :
          /\ r.applied_on = t.appliedOn
          /\ r.checksum = t.checksum
          /\ r.success = TRUE
          /\ r.checksum = getCqlChecksum(r.body)

\* the rows of the migrations in apply(): a migration that has executed a
\* statement, or is about to, has a row with a non-null applied_on;
\* between the two writes, and after a throw between them, the row says
\* success = false; a row that says success = true for a migration applied
\* in this run was written after all of its statements
TwoPhaseRows ==
    \A p \in Procs : \A t \in MigrationsOf(p) :
        LET rows == RowsOf(migrationsTable, t)
        IN  /\ (t.idx > 0 \/ BetweenWrites(t)) =>
                  /\ rows # { }
                  /\ \A r \in rows : r.applied_on # Null
            /\ BetweenWrites(t) => \A r \in rows : r.success = FALSE
            /\ (~ HydratedApplied(t) /\ \E r \in rows : r.success = TRUE) =>
                  /\ t.st = "done"
                  /\ t.idx = Len(Commands(t.fileBody))
            /\ t.idx <= Len(Commands(t.fileBody))

\* the process of a migration that is between its two writes ends (it is
\* killed or exits): the row still says success = false
CrashLeavesFailedRow ==
    \A p \in Procs : \A t \in MigrationsOf(p) :
        (BetweenWrites(t) /\ Running(p) /\ ~ Running(p)') =>
            /\ RowsOf(migrationsTable', t) # { }
            /\ \A r \in RowsOf(migrationsTable', t) :
                  r.success = FALSE /\ r.applied_on # Null

\* C6: two-phase write. No statement of a migration is executed before its
\* row was written with success = false and a non-null applied_on, the row
\* is written with success = true only after all of its statements, and a
\* failure or a crash between the two writes leaves the row with
\* success = false.
C6_TwoPhaseWrite == []TwoPhaseRows /\ [][CrashLeavesFailedRow]_vars

\* a2 has executed the first of its two statements and the second has
\* thrown: its row says success = false
C6_Witness ==
    \E p \in Procs : \E t \in MigrationsOf(p) :
        /\ Is(t, A2) /\ t.idx = 1
        /\ t.failedAt = "command"
        /\ \E r \in RowsOf(migrationsTable, t) : r.success = FALSE

\* the row r is of a migration the walk of the root finds
Discovered(r) ==
    \E path \in tree :
        /\ getFileDepth(path) = migrationDepth
        /\ Segments(path) = << r.keyspace_name, r.service, r.file >>

FailedRows ==
    { r \in migrationsTable : r.success = FALSE /\ r.applied_on # Null /\ Discovered(r) }

Refused == Some("Migration found with success=false")

\* loadFiles of p returns or throws while a discovered migration has a
\* failed row: start() catches an error before any apply() is called
RefusesAtLoad(p) ==
    (pc[p] = "load" /\ pc'[p] \notin { "load", "killed" } /\ FailedRows # { })
        => /\ pc'[p] = "releaseErr"
           /\ tasks'[p] = { }
           /\ caught'[p] # Null

\* while p lives after it has refused, no row is written
NothingAfterRefusal(p) ==
    (caught[p] = Refused /\ Running(p))
        => /\ migrationsTable' = migrationsTable
           /\ bootstrapsTable' = bootstrapsTable
           /\ tasks'[p] = { }

\* C7: refusal. A load that ends while a discovered migration has a row
\* with success = false and a non-null applied_on ends in an error, with
\* no apply() called; a run that has refused calls no apply(), executes no
\* statement and writes no row, wherever the migration is in its list.
C7_Refusal ==
    /\ [](\A p \in Procs : (caught[p] = Refused /\ Running(p)) =>
              /\ tasks[p] = { }
              /\ pc[p] \in { "releaseErr", "releaseEnd", "returned" }
              /\ FailedRows # { })
    /\ [][\A p \in Procs : RefusesAtLoad(p) /\ NothingAfterRefusal(p)]_vars

\* a run has refused on the failed row of a2, the second of its list
C7_Witness ==
    \E p \in Procs :
        /\ pc[p] = "releaseErr" /\ caught[p] = Refused
        /\ FailedRows # { }
        /\ \A r \in FailedRows : Is([keyspace |-> r.keyspace_name, service |-> r.service,
                                     file |-> r.file], A2)

\* C8: idempotence of an applied migration. A migration hydrated with
\* success = true whose canonical body has the stored checksum is skipped:
\* none of its statements is executed and its row stays the one it was
\* hydrated from.
C8_AppliedIsSkipped ==
    \A p \in Procs : \A t \in MigrationsOf(p) :
        (HydratedApplied(t) /\ t.checksum = getCqlChecksum(t.fileBody)) =>
            /\ t.st = "skipped"
            /\ t.idx = 0
            /\ RowAsHydrated(t)
            /\ RowsOf(migrationsTable, t) = { MigrationRow(t) }

\* a second run has skipped a1 and b1 and goes on to a2
C8_Witness ==
    \E p \in Procs : \E t, u \in MigrationsOf(p) :
        /\ Is(t, A1) /\ t.st = "skipped"
        /\ Is(u, B1) /\ u.st = "skipped"
        /\ pc[p] = "roundAgree"

\* C9, as the specification states it: when the apply of a migration has
\* failed on its checksum, no statement has been executed.
C9_NoStatementBeforeMismatch ==
    \A p \in Procs : \A t \in MigrationsOf(p) :
        t.failedAt = "checksum" => \A u \in MigrationsOf(p) : u.idx = 0

\* C9, amended: a migration hydrated with success = true whose canonical
\* body has another checksum than the stored one fails in apply() before
\* any of its own statements is executed and without a write: its row
\* stays the one it was hydrated from, the round fails and no later round
\* is begun. The bootstraps and the other migrations of the rounds up to
\* that one do execute their statements.
C9_MismatchFailsApply ==
    \A p \in Procs : \A t \in MigrationsOf(p) :
        (HydratedApplied(t) /\ t.checksum # getCqlChecksum(t.fileBody)) =>
            /\ t.st = "failed" /\ t.failedAt = "checksum"
            /\ t.idx = 0
            /\ RowAsHydrated(t)
            /\ migrationFailed[p]
            /\ pc[p] \in { "round", "releaseErr" }
            /\ t.round = round[p]

\* a1 has failed on its checksum and start() has caught the error of the
\* round
C9_Witness ==
    \E p \in Procs : \E t \in MigrationsOf(p) :
        /\ Is(t, A1) /\ t.failedAt = "checksum"
        /\ pc[p] = "releaseErr" /\ caught[p] = RoundFailed
        /\ AllSettled(MigrationsOf(p))

\* C10, as the specification states it: when start() has caught the error
\* of a round, every migration whose apply failed in that round has a row
\* with success = false.
C10_FailedRowForEveryFailure ==
    \A p \in Procs :
        (pc[p] = "releaseErr" /\ caught[p] = RoundFailed) =>
            \A t \in MigrationsOf(p) :
                t.st = "failed" =>
                    \E r \in RowsOf(migrationsTable, t) : r.success = FALSE

(***************************************************************************)
(* Properties of the bootstraps.                                           *)
(***************************************************************************)
BootstrapsOf(p) == { t \in tasks[p] : t.kind = "bootstrap" }

SameBootstrapKey(r, s) ==
    r.keyspace_name = s.keyspace_name /\ r.applied_on = s.applied_on

\* C11, as the specification states it: apply() of a bootstrap writes its
\* one row after its statements, with success = true. No row says
\* success = false, and a bootstrap that is executing its statements has
\* written no row.
C11_OneRowAfterStatements ==
    /\ \A r \in bootstrapsTable : r.success = TRUE
    /\ \A p \in Procs : \A t \in BootstrapsOf(p) :
          t.st = "exec" => BootstrapRow(t) \notin bootstrapsTable

\* a step that changes cqlmigrate.bootstraps is a save() of one bootstrap
\* apply: the first, before any statement, writes the row with
\* success = false, the second, after all statements, writes the row with
\* success = true; the row written replaces the row of the same keyspace
\* and applied_on only, every other row stays
BootstrapWrites ==
    bootstrapsTable' # bootstrapsTable =>
        \E p \in Procs : \E t \in BootstrapsOf(p) :
            /\ bootstrapsTable' \ bootstrapsTable = { BootstrapRow(t) }
            /\ \A r \in bootstrapsTable \ bootstrapsTable' :
                  SameBootstrapKey(r, BootstrapRow(t))
            /\ t.appliedOn # Null
            /\ \/ t.st = "save1" /\ t.idx = 0 /\ t.success = FALSE
               \/ /\ t.st = "save2" /\ t.success = TRUE
                  /\ t.idx = Len(Commands(t.fileBody))

\* the rows of the bootstraps in apply(): once the first save() has
\* returned the table holds a row of the keyspace with the applied_on of
\* that save, and a bootstrap that is done has the row of its second save
BootstrapRows ==
    \A p \in Procs : \A t \in BootstrapsOf(p) :
        /\ (t.st \in { "exec", "done" } \/ t.failedAt = "command") =>
              \E r \in bootstrapsTable :
                  r.keyspace_name = t.keyspace /\ r.applied_on = t.appliedOn
        /\ t.st \in { "save2", "done" } <=> (t.success = TRUE /\ t.st # "failed")
        /\ Cardinality({ u \in BootstrapsOf(p) : u.keyspace = t.keyspace }) = 1

\* C11, amended: apply() of a bootstrap writes its row twice, before its
\* statements with success = false and after them with success = true and
\* a new applied_on. applied_on is part of the primary key, so the second
\* write replaces the first only when the two timestamps are equal: a
\* successful apply leaves one or two rows, and a run over two keyspaces
\* with one bootstrap each adds two to four rows.
C11_TwoWritesPerApply == []BootstrapRows /\ [][BootstrapWrites]_vars

\* the first run over the two keyspaces has applied both bootstraps, the
\* clock has moved between the two saves of each, and the table holds four
\* rows, two of them with success = false
C11_Witness ==
    \E p \in Procs :
        /\ pc[p] = "bootstrapAgree"
        /\ \A q \in Procs \ { p } : pc[q] = "init"
        /\ \A t \in BootstrapsOf(p) : t.st = "done"
        /\ Cardinality(bootstrapsTable) = 4
        /\ Cardinality({ r \in bootstrapsTable : r.success = FALSE }) = 2

\* the bootstrap files the walk of the root finds
DiscoveredBootstraps ==
    { path \in tree : path.base = bootstrapFilename /\ getFileDepth(path) = bootstrapDepth }

\* the bootstraps of the run of p: while start() is in applyBootstraps
\* every discovered bootstrap has an apply, and when Promise.all has
\* resolved every one of them is done with all of its statements executed;
\* no apply of a bootstrap is skipped, compares a checksum or is made twice
EveryBootstrapApplied ==
    \A p \in Procs :
        /\ pc[p] \in { "bootstrapping", "bootstrapAgree" } =>
              \A path \in DiscoveredBootstraps :
                  \E t \in BootstrapsOf(p) :
                      /\ t.keyspace = Segments(path)[1] /\ t.file = path.base
                      /\ pc[p] = "bootstrapAgree" =>
                            t.st = "done" /\ t.idx = Len(Commands(t.fileBody))
        /\ \A t \in BootstrapsOf(p) :
              /\ t.st # "skipped" /\ t.failedAt # "checksum" /\ t.checksum = Null
              /\ \A u \in BootstrapsOf(p) : u.keyspace = t.keyspace => u = t

\* the apply of a bootstrap begins when loadFiles has returned, and at no
\* other place of a run
BootstrapBeginsAtLoad ==
    \A p \in Procs : \A t \in BootstrapsOf(p)' :
        (\A u \in BootstrapsOf(p) : u.keyspace # t.keyspace) =>
            pc[p] = "load" /\ t.st = "save1" /\ t.idx = 0

\* C12: bootstraps are re-applied every run. Every discovered bootstrap is
\* applied exactly once in a run that reaches the bootstrap phase, without
\* a comparison of checksums and without a skip, whatever rows the
\* bootstraps table holds from earlier runs.
C12_BootstrapsEveryRun == []EveryBootstrapApplied /\ [][BootstrapBeginsAtLoad]_vars

\* an earlier run has ended with code 0; the bootstrap of foo of this run
\* has executed its statement again while the table holds a row of the
\* same keyspace and body with success = true
C12_Witness ==
    \E p, q \in Procs :
        /\ pc[q] = "exited" /\ exitCode[q] = Some(0)
        /\ pc[p] = "bootstrapping"
        /\ \E t \in BootstrapsOf(p) :
              /\ t.keyspace = "foo" /\ t.st = "save2" /\ t.idx = 1
              /\ \E r \in bootstrapsTable :
                    /\ r.keyspace_name = t.keyspace /\ r.body = t.fileBody
                    /\ r.success = TRUE

\* start() is past its catch block or at its end
Releasing(p) == pc[p] \in { "releaseErr", "releaseEnd", "returned" }

\* while start() waits for schema agreement after the bootstraps every
\* bootstrap is done; a migration has an apply only after a schema check
\* has returned true after the bootstraps, with no bootstrap in flight;
\* before that check no pass of applyMigrations has begun
BootstrapsBeforeMigrations ==
    \A p \in Procs :
        /\ pc[p] = "bootstrapAgree" =>
              /\ BootstrapsOf(p) # { }
              /\ \A t \in BootstrapsOf(p) : t.st = "done"
        /\ MigrationsOf(p) # { } => agreedAfter[p] >= 0 /\ BootstrapsOf(p) = { }
        /\ agreedAfter[p] = -1 => round[p] = 0 /\ MigrationsOf(p) = { }
        /\ pc[p] \in { "round", "roundAgree" } => agreedAfter[p] >= 0

\* the first pass of applyMigrations begins at a schema check that returns
\* true after the bootstraps, and once start() has caught an error it
\* calls no apply()
FirstRoundAfterAgreement ==
    \A p \in Procs :
        /\ (MigrationsOf(p) = { } /\ MigrationsOf(p)' # { }) =>
              /\ pc[p] = "bootstrapAgree"
              /\ agreedAfter'[p] = 0
              /\ \A t \in BootstrapsOf(p) : t.st = "done"
        /\ Releasing(p) =>
              /\ Releasing(p)' \/ pc'[p] \in { "exited", "killed" }
              /\ MigrationsOf(p)' \subseteq MigrationsOf(p)

\* C13: bootstrap phase barrier. No apply of a migration begins before
\* every apply of a bootstrap has completed successfully and a schema
\* check has then returned true; when the apply of a bootstrap fails, no
\* migration is applied in that run.
C13_BootstrapBarrier == []BootstrapsBeforeMigrations /\ [][FirstRoundAfterAgreement]_vars

\* the apply of a bootstrap has failed while the other is in flight:
\* start() has caught the error, the migrations loaded are waiting and
\* none has an apply
C13_Witness ==
    \E p \in Procs :
        /\ pc[p] = "releaseErr" /\ caught[p] = Some("driver")
        /\ \E t \in BootstrapsOf(p) : ~ Settled(t)
        /\ Pending(p) # { }
        /\ MigrationsOf(p) = { } /\ round[p] = 0

(***************************************************************************)
(* Properties of Migrator.start.                                           *)
(***************************************************************************)
\* the phase of start() at the place at: 1 init, 2 locking, 3 loading,
\* 4 bootstrapping, 5 migrating, 6 releasing, 7 exit; 0 after a signal
PhaseOf(at) ==
    CASE at \in { "init", "initApply" } -> 1
      [] at = "acquire" -> 2
      [] at = "load" -> 3
      [] at \in { "bootstrapping", "bootstrapAgree" } -> 4
      [] at \in { "round", "roundAgree" } -> 5
      [] at \in { "releaseErr", "releaseEnd", "returned" } -> 6
      [] at = "exited" -> 7
      [] OTHER -> 0

\* the phases a phase is followed by
PhasesAfter(ph) ==
    CASE ph = 1 -> { 1, 2, 7 }
      [] ph = 2 -> { 2, 3, 7 }
      [] ph = 3 -> { 3, 4, 6 }
      [] ph = 4 -> { 4, 5, 6 }
      [] ph = 5 -> { 5, 6 }
      [] ph = 6 -> { 6, 7 }
      [] OTHER -> { ph }

\* a step of start(): the phase stays or is followed by one of the phases
\* after it; the row of the lock is inserted in phase 2 only, and it is
\* there when start() leaves phase 2 for phase 3; an error caught in phases 3 to 5 leads to
\* releaseLockAndExit(1) in that step, and an exit from there has code 1
PhaseStep(p) ==
    LET ph == PhaseOf(pc[p])
    IN  pc'[p] # "killed" =>
            /\ PhaseOf(pc'[p]) \in PhasesAfter(ph)
            /\ (locks # p /\ locks' = p) => ph = 2
            /\ (ph = 2 /\ PhaseOf(pc'[p]) = 3) => locks = NoClient /\ locks' = p
            /\ (ph \in 3..5 /\ caught'[p] # caught[p]) => pc'[p] = "releaseErr"
            /\ (ph \in 3..5 /\ pc'[p] = "releaseEnd") =>
                  /\ pc[p] \in { "bootstrapAgree", "roundAgree" }
                  /\ caught[p] = Null /\ ~ migrationFailed[p] /\ Pending(p)' = { }
            /\ (pc[p] = "releaseErr" /\ pc'[p] = "exited") => exitCode'[p] = Some(1)
            /\ (ph = 1 /\ pc'[p] = "exited") => exitCode'[p] = Some(1)

\* the init file is applied in phase 1 only and has run to its end when
\* acquire is called; the lock row names no process that has not called
\* acquire, and it names the process that is in phases 3 to 5; an apply that has failed is followed by the
\* catch block as soon as start() is no longer awaiting a round
PhaseState ==
    \A p \in Procs :
        /\ \A t \in tasks[p] : t.kind = "init" => pc[p] = "initApply" /\ t.st = "exec"
        /\ pc[p] = "acquire" => tasks[p] = { } /\ locks # p
        /\ locks = p => PhaseOf(pc[p]) \notin { 1, 2 }
        /\ PhaseOf(pc[p]) \in 3..5 => locks = p
        /\ PhaseOf(pc[p]) \in { 1, 2, 3 } => Applies(p) = { }
        /\ PhaseOf(pc[p]) \in 1..5 => caught[p] = Null /\ exitCode[p] = Null
        /\ \A t \in Applies(p) :
              t.st = "failed" =>
                  \/ pc[p] = "round" /\ InFlight(MigrationsOf(p)) # { }
                  \/ pc[p] = "releaseErr"

\* C14: the phases of start() occur in the order init, locking, loading,
\* bootstrapping, migrating, releasing, exit. The init script has run to
\* its end before acquire is called, and a failure while loading,
\* bootstrapping or migrating leads to releaseLockAndExit(1) without any
\* later work phase.
C14_PhaseOrder == []PhaseState /\ [][\A p \in Procs : PhaseStep(p)]_vars

\* a run has gone through every phase: its second round has failed and
\* start() has caught the error
C14_Witness ==
    \E p \in Procs :
        /\ pc[p] = "releaseErr" /\ caught[p] = RoundFailed
        /\ round[p] = 2 /\ locks = p

\* C15, as the specification states it: a process exits with code 0 or 1,
\* with 0 only when nothing has failed (start() has caught no error), and
\* with 1 when start() has caught an error.
C15_ExitCodes ==
    \A p \in Procs :
        /\ exitCode[p] \in { Null, Some(0), Some(1) }
        /\ exitCode[p] = Some(0) => caught[p] = Null
        /\ (pc[p] = "exited" /\ caught[p] # Null) => exitCode[p] = Some(1)

\* C16, as the specification states it: a release that has returned false
\* is followed by no call of process.exit. After the release of the catch
\* block has returned false (start() has caught an error and is at its
\* last line), and after the release of the last line has returned false,
\* the process does not exit.
C16_NoExitAfterFailedRelease ==
    [][\A p \in Procs :
          (\/ pc[p] = "releaseEnd" /\ caught[p] # Null
           \/ pc[p] = "returned") => pc'[p] # "exited"]_vars

\* the process p ends: it exits, or start() returns
Ended(at) == at \in { "exited", "returned" }

\* acquire is called when init() has returned and at no other place, and
\* a process that has left it never comes back to it or to init()
AcquireOnce(p) ==
    /\ (pc[p] # "acquire" /\ pc'[p] = "acquire") => pc[p] \in { "init", "initApply" }
    /\ (locks # p /\ locks' = p) => pc[p] = "acquire" /\ locks = NoClient
    /\ PhaseOf(pc[p]) \notin { 1, 2 } => PhaseOf(pc'[p]) \notin { 1, 2 }

\* a process that has acquired the lock ends in a step of
\* releaseLockAndExit, in which the DELETE of Lock.release has been issued;
\* it exits only when that DELETE was applied, and it leaves the phases of
\* work for releaseLockAndExit only
ReleaseBeforeEnd(p) ==
    /\ (PhaseOf(pc[p]) \in 3..6 /\ ~ Ended(pc[p]) /\ Ended(pc'[p])) =>
          /\ pc[p] \in { "releaseErr", "releaseEnd" }
          /\ \E outcome \in QueryOutcomes : locks' = release(p, outcome, locks).locks
          /\ pc'[p] = "exited" => (locks = p /\ locks' = NoClient)
    /\ (PhaseOf(pc[p]) \in 3..5 /\ PhaseOf(pc'[p]) \notin 3..5 /\ pc'[p] # "killed") =>
          pc'[p] \in { "releaseErr", "releaseEnd" }

\* C17: the lock is acquired at most once by a process, and a process that
\* has acquired it does not end before it has attempted a release: after
\* a failure of loadFiles, of a bootstrap, of a round or of a schema check,
\* and after success.
C17_ReleaseOnEveryPath ==
    [][\A p \in Procs : AcquireOnce(p) /\ ReleaseBeforeEnd(p)]_vars

\* a run has exited with 1 after a failed round, and the lock row is gone
C17_Witness ==
    \E p \in Procs :
        /\ pc[p] = "exited" /\ exitCode[p] = Some(1) /\ caught[p] = RoundFailed
        /\ locks = NoClient

\* C18, as the specification states it: when acquire has returned false
\* (start() has exited on it), the row of the lock does not carry the
\* client id of the process.
C18_NeverHeldWhenFalse ==
    \A p \in Procs : caught[p] = AcquireFailed => locks # p

\* the call of acquire by p returns: when the row of the lock is not the
\* one of p afterwards acquire has returned false and start() exits; the
\* exit has code 1, nothing was loaded and no DELETE was issued (the row is
\* as before, or it is the row the failed call has inserted); if start()
\* goes on, it is with the row of p
AcquireReturns(p) ==
    (pc[p] = "acquire" /\ pc'[p] \notin { "acquire", "killed" }) =>
        /\ locks' # p => pc'[p] = "exited"
        /\ pc'[p] = "exited" =>
              /\ exitCode'[p] = Some(1) /\ caught'[p] = AcquireFailed
              /\ tasks'[p] = { } /\ Pending(p)' = { }
              /\ locks' = locks \/ (locks = NoClient /\ locks' = p)
              /\ migrationsTable' = migrationsTable
              /\ bootstrapsTable' = bootstrapsTable
        /\ pc'[p] # "exited" => pc'[p] = "load" /\ locks = NoClient /\ locks' = p

\* a process that has exited on a false acquire stays as it is, and the
\* row of the lock it may have left is not deleted
NothingAfterAcquireFailed(p) ==
    caught[p] = AcquireFailed =>
        /\ pc'[p] = "exited" /\ tasks'[p] = { }
        /\ locks = p => locks' = p

\* C19: acquire failure. When acquire returns false the process exits
\* with code 1; it attempts no release and it never loads, bootstraps or
\* migrates.
C19_AcquireFailureExits ==
    /\ [](\A p \in Procs : caught[p] = AcquireFailed =>
              /\ pc[p] = "exited" /\ exitCode[p] = Some(1)
              /\ Applies(p) = { } /\ Pending(p) = { } /\ round[p] = 0)
    /\ [][\A p \in Procs : AcquireReturns(p) /\ NothingAfterAcquireFailed(p)]_vars

\* the call of acquire of a process has thrown while the table had no row
\* (the other process has not begun): the process has exited with 1 and
\* the table has no row
C19_Witness ==
    \E p \in Procs :
        /\ pc[p] = "exited" /\ exitCode[p] = Some(1) /\ caught[p] = AcquireFailed
        /\ locks = NoClient
        /\ \A q \in Procs \ { p } : pc[q] = "init"

\* the errors of Migrator.init
InitErrors == { Some("Error loading init file"), Some("Error applying the init file") }

\* init() of p ends: it throws and start() exits with 1, or it returns
\* after the last command of the init file and start() calls acquire; the
\* row of the lock is the same after the step
InitEnds(p) ==
    (PhaseOf(pc[p]) = 1 /\ PhaseOf(pc'[p]) \notin { 0, 1 }) =>
        /\ locks' = locks /\ locks # p
        /\ migrationsTable' = migrationsTable
        /\ bootstrapsTable' = bootstrapsTable
        /\ \/ /\ pc'[p] = "exited" /\ exitCode'[p] = Some(1)
              /\ caught'[p] \in InitErrors
           \/ /\ pc'[p] = "acquire" /\ caught'[p] = Null /\ exitCode'[p] = Null
              /\ tasks'[p] = { }

\* C20: pre-lock failure. When loading or applying the init script fails
\* the process exits with code 1; it calls neither acquire nor release, and
\* the row of the lock is never the one of that run.
C20_InitFailureExits ==
    /\ [](\A p \in Procs : caught[p] \in InitErrors =>
              /\ pc[p] = "exited" /\ exitCode[p] = Some(1)
              /\ locks # p
              /\ tasks[p] = { } /\ Pending(p) = { })
    /\ [][\A p \in Procs : InitEnds(p)]_vars

\* a command of the init file of one process has failed while the other
\* holds the lock: the process has exited with 1 and the row is the one of
\* the other
C20_Witness ==
    \E p, q \in Procs :
        /\ pc[p] = "exited" /\ exitCode[p] = Some(1)
        /\ caught[p] = Some("Error applying the init file")
        /\ locks = q /\ pc[q] = "load"

(***************************************************************************)
(* Properties of Lock.release and of the row of the lock.                  *)
(***************************************************************************)
\* releaseLockAndExit of p is about to issue its DELETE
AtRelease(p) == pc[p] \in { "releaseErr", "releaseEnd" }

\* the step is the return of a release of p
ReleaseReturns(p) == AtRelease(p) /\ pc'[p] \notin { pc[p], "killed" }

\* a release of p returns: issued while the row is not the one of p it
\* returns false (start() does not exit) and the row is as before; it
\* returns true only when the row was the one of p, and the row is deleted
\* then; a row of p that is still there means it has returned false
OwnerConditional(p) ==
    ReleaseReturns(p) =>
        /\ locks # p => locks' = locks /\ pc'[p] # "exited"
        /\ pc'[p] = "exited" => locks = p /\ locks' = NoClient
        /\ locks = p => locks' \in { p, NoClient }
        /\ locks' = p => pc'[p] # "exited"

\* the row of q goes away in a release of q and in no other step
OnlyOwnerDeletes(q) ==
    (locks = q /\ locks' # q) => ReleaseReturns(q) /\ locks' = NoClient

Gone(p) == pc[p] \in { "exited", "killed", "returned" }

\* an acquire of p returns while a row exists: it returns false, whether
\* the driver returned or threw, and the row is the one it found
AcquireRefused(p) ==
    (pc[p] = "acquire" /\ locks # NoClient /\ pc'[p] \notin { "acquire", "killed" })
        => /\ locks' = locks
           /\ pc'[p] = "exited" /\ caught'[p] = AcquireFailed

\* the row of q is never replaced by the row of another client; it goes
\* away only in a release of q, and so never once start() of q is over
RowStays(q) ==
    locks = q =>
        /\ locks' \in { q, NoClient }
        /\ locks' = NoClient => AtRelease(q) /\ pc'[q] \notin { pc[q], "killed" }
        /\ Gone(q) => locks' = q

\* C22: a lock row never goes away by itself. While the row exists every
\* acquire that returns has returned false and has left the row as it
\* was; the row of a process that was killed, has exited or has returned
\* without deleting it stays for ever (no step of the model deletes by
\* hand), and a row is deleted only by a release of its owner.
C22_LockRowPersists ==
    [][\A p \in Procs : AcquireRefused(p) /\ RowStays(p)]_vars

\* the owner of the row was killed and the other process, which began
\* later, has exited on a false acquire with the row still there
C22_Witness ==
    \E p, q \in Procs :
        /\ locks = q /\ pc[q] = "killed"
        /\ pc[p] = "exited" /\ caught[p] = AcquireFailed


(***************************************************************************)
(* Properties of the rounds.                                               *)
(***************************************************************************)
\* the applies begun by the current pass of applyMigrations of p
RoundOf(p) == { t \in MigrationsOf(p) : t.round = round[p] }

\* C23: round composition. A round holds the next pending migration of
\* every (keyspace, service) that still has pending migrations: while a
\* round of a process is awaited, every migration whose apply has not been
\* called has an earlier migration of its own keyspace and service in that
\* round, whatever the names of the service directories.
C23_RoundOfEveryStream ==
    \A p \in Procs :
        pc[p] = "round" =>
            \A m \in Pending(p) : \E t \in RoundOf(p) : SameStream(t, m)


(***************************************************************************)
(* Properties of the wait for schema agreement.                            *)
(***************************************************************************)
\* init() of p has returned: the statements of the init script have been
\* executed, and the next query of start() is the INSERT of Lock.acquire
InitApplied(p) == pc[p] = "acquire"

\* a check of p has returned true after the bootstraps (0) or after the
\* round[p]-th round; agreedAfter is -1 while no check of the run has
\* returned true
AgreedAfterPhase(p, phase) == agreedAfter[p] = phase

\* the part of the wait that is about the bootstraps and the rounds: while
\* a round is awaited a check has returned true after the phase before
\* it, and when the last release is next with no error caught a check has
\* returned true after the last round
AgreementBeforeRounds ==
    \A p \in Procs :
        /\ pc[p] = "round" => AgreedAfterPhase(p, round[p] - 1)
        /\ (pc[p] = "releaseEnd" /\ caught[p] = Null) => AgreedAfterPhase(p, round[p])

\* C24: the tool blocks until the nodes agree after every operation that
\* changes the schema, before its next database operation: when the
\* INSERT of acquire is next, a check has returned true since the init
\* script was applied; and the same after the bootstraps and after each
\* round.
C24_AgreementBeforeNextOperation ==
    /\ \A p \in Procs : InitApplied(p) => agreedAfter[p] # -1
    /\ AgreementBeforeRounds


\* p is in getSchemaAgreementPromise
Waiting(p) == pc[p] \in { "bootstrapAgree", "roundAgree" }

\* start() of p leaves the wait, other than by a kill, only after a check
\* that returned true
LeavesWaitOnAgreement(p) ==
    (Waiting(p) /\ pc'[p] \notin { pc[p], "killed" }) => agreedAfter'[p] = round[p]

\* C25: the probe is not fatal and is retried for ever. A check that does
\* not report agreement, the one whose query fails and the one that finds
\* a peer without a schema version included, leaves the process in the
\* wait: the wait is left only after a check that returned true.
C25_ProbeNeverAborts == [][\A p \in Procs : LeavesWaitOnAgreement(p)]_vars


\* the waits of a run: one after the bootstraps and one after each round,
\* and there are no more rounds than migration files
WaitPhases == 0..Cardinality({ path \in TreeOf("s2") : getFileDepth(path) = migrationDepth })

\* p is in the wait begun after the bootstraps (phase 0) or after the
\* round of that number
WaitingAfter(p, phase) == Waiting(p) /\ round[p] = phase

\* getSchemaAgreementPromise of p returns: applyMigrations comes to the
\* head of its loop
WaitReturns(p) ==
    Waiting(p) /\ pc'[p] # "killed" /\ agreedAfter'[p] # agreedAfter[p]

\* the wait returns only in a step in which a check returns true
ReturnsOnAgreement(p) == WaitReturns(p) => agreement = "true"

\* while a check returns false the process stays in its wait, whatever
\* time passes, unless it is killed
WaitsWhileFalse(p) ==
    (Waiting(p) /\ agreement = "false") =>
        \/ pc'[p] = "killed"
        \/ /\ pc'[p] = pc[p] /\ round'[p] = round[p]
           /\ agreedAfter'[p] = agreedAfter[p] /\ caught'[p] = caught[p]

\* C26: the wait for schema agreement has no timeout. It returns only
\* after a check returned true; while every check returns false it does
\* not return, however much time passes; and if the cluster reaches
\* agreement and keeps it, every wait that was begun ends.
C26_WaitUntilAgreement ==
    /\ [][\A p \in Procs : ReturnsOnAgreement(p) /\ WaitsWhileFalse(p)]_vars
    /\ (<>[](agreement = "true")) =>
          \A p \in Procs : \A phase \in WaitPhases :
              WaitingAfter(p, phase) ~> ~ WaitingAfter(p, phase)

\* a process is in the wait after its round, at the last moment of the
\* clock, while a check returns false
C26_Witness ==
    \E p \in Procs :
        /\ pc[p] = "roundAgree" /\ round[p] = 1
        /\ agreement = "false" /\ now = MaxClock


(***************************************************************************)
(* Properties of the init script.                                          *)
(***************************************************************************)
\* init() of p goes on by a step: the file is loaded and its apply()
\* begun, a statement is executed, or init() ends
InitSteps(p) ==
    /\ pc[p] \in { "init", "initApply" }
    /\ pc'[p] # "killed"
    /\ pc'[p] # pc[p] \/ tasks'[p] # tasks[p]

\* a row of one of the two tables names the init file
RecordsInit(r) == r.file = initFilename

\* C27: the init script is never recorded. The steps of init(), the call
\* of save() at both ends of apply() included, leave the three tables as
\* they are, and no row of the migrations or the bootstraps table names
\* the init file, in any run.
C27_InitNeverRecorded ==
    /\ [](\A r \in migrationsTable \cup bootstrapsTable : ~ RecordsInit(r))
    /\ [][\A p \in Procs : InitSteps(p) => UNCHANGED dbVars]_vars

\* the init script of a process has been applied, its statements
\* executed, while the tables hold the rows of another run
C27_Witness ==
    \E p \in Procs :
        /\ pc[p] = "acquire"
        /\ migrationsTable # { } /\ bootstrapsTable # { }


(***************************************************************************)
(* Properties of the canonical form.                                       *)
(***************************************************************************)
\* the file differs from what was applied by the text w put in at place k
EditedBy(k, w) == k \in 0..Len(cqlBefore) /\ cqlNow = InsertAt(cqlBefore, k, w)

\* the run that loads the file finds the checksum of its row and skips it
SkippedOnReload ==
    reloaded # Null =>
        /\ reloaded[1].st = "skipped"
        /\ reloaded[1].checksum = getCqlChecksum(canonicalizeCql(cqlNow))
        /\ MigrationRow(reloaded[1]) = AppliedRow(cqlBefore)

\* the canonical form and the checksum are those of the applied content
SameCanonicalForm ==
    /\ canonicalizeCql(cqlNow) = canonicalizeCql(cqlBefore)
    /\ getCqlChecksum(canonicalizeCql(cqlNow)) = getCqlChecksum(canonicalizeCql(cqlBefore))

\* C28 as stated: whatever whitespace or comment is put into the text
\* outside its string literals, the canonical form is the same and the
\* run that loads the file skips it.
C28_AnyWhitespaceOrComment == SameCanonicalForm /\ SkippedOnReload

\* w is put between two tokens of s, or at an end of s
BetweenTokens(s, k, w) == Boundary(s, k) /\ ReadAsInserted(s, k, w)

\* C28, amended: whitespace and comments between tokens are ignored. When
\* the file differs from the applied content by whitespace or a comment
\* put between two tokens, the canonical form and the checksum are the
\* same and the run that loads the file skips it.
C28_BetweenTokens ==
    \A k \in 0..MaxCql : \A w \in InsertedWhitespace \cup InsertedComments :
        (EditedBy(k, w) /\ BetweenTokens(cqlBefore, k, w))
            => SameCanonicalForm /\ SkippedOnReload

\* a comment was put between a string literal and a word, and the run
\* that loaded the file has skipped it
C28_Witness ==
    /\ \E k \in 1..MaxCql : \E w \in InsertedComments :
          /\ EditedBy(k, w) /\ BetweenTokens(cqlBefore, k, w)
          /\ k < Len(cqlBefore)
          /\ \E j \in 1..Len(Spans(cqlBefore)) : Spans(cqlBefore)[j].type = "string"
    /\ reloaded # Null /\ reloaded[1].st = "skipped"

(***************************************************************************)
(* Properties of the checksum.                                             *)
(***************************************************************************)
\* the checksum getCqlChecksum returns for an input, once the hash has
\* given its digest
Returned(input, checksum) ==
    hash # Null /\ hash.input = input /\ hash.digest = Some(checksum)

\* C29: the checksum is the MD5 of the UTF-8 bytes of the input in hex: 32
\* hex digits, and for each fixed string of the test 'Checksum' ('this is
\* some string', 'this is another string', 'foo bar baz') exactly the
\* checksum the test expects (0e1eb663ad4cbb70b7d262f813bfbec4,
\* 7cd1136eb26ea58d5ac6762168db7f7f, ab07acbb1e496801937adfa772424bf7)
C29_ChecksumVectors ==
    (hash # Null /\ hash.digest # Null) =>
        /\ Len(hash.digest[1]) = 32
        /\ \A v \in ChecksumVectors :
              hash.input = v.input => hash.digest[1] = v.checksum

C29_Witness ==
    \E v \in ChecksumVectors :
        /\ v.input = << "f", "o", "o", " ", "b", "a", "r", " ", "b", "a", "z" >>
        /\ Returned(v.input, v.checksum)

(***************************************************************************)
(* Properties of the statements of a script.                               *)
(***************************************************************************)
\* the scripts process p is applying, the init script among them
Scripts(p) == tasks[p]

\* t and u are the apply of the same file
SameScript(t, u) ==
    /\ t.kind = u.kind /\ t.keyspace = u.keyspace
    /\ t.service = u.service /\ t.file = u.file

\* the statements of the segments before segment k of the body
StatementsBefore(body, k) ==
    Cardinality({ j \in 1..(k - 1) : ~ IsBlank(SplitCommands(body)[j]) })

\* the statement apply t issues next: the command at its index
NextStatement(t) == Commands(t.fileBody)[t.idx + 1]

\* the statement an apply is about to issue is a segment of the split that
\* is not blank, and the statements of the segments before it are the ones
\* that have completed
IssuesInBodyOrder(t) ==
    t.st = "exec" =>
        /\ t.idx < Len(Commands(t.fileBody))
        /\ ~ IsBlank(NextStatement(t))
        /\ \E k \in 1..Len(SplitCommands(t.fileBody)) :
              /\ SplitCommands(t.fileBody)[k] = NextStatement(t)
              /\ StatementsBefore(t.fileBody, k) = t.idx

\* an apply that has gone on to its second save has completed every
\* statement of the body, and one whose first save failed none
CompletesEveryStatement(t) ==
    /\ t.st \in { "save2", "done" } =>
          t.idx = StatementsBefore(t.fileBody, Len(SplitCommands(t.fileBody)) + 1)
    /\ t.st = "save1" => t.idx = 0
    /\ (t.st = "failed" /\ t.failedAt = "save1") => t.idx = 0
    /\ (t.st = "failed" /\ t.failedAt = "command") =>
          t.idx < StatementsBefore(t.fileBody, Len(SplitCommands(t.fileBody)) + 1)

\* a step completes at most one statement of an apply, the one it was
\* about to issue, and none of an apply that has failed
OneStatementAtATime(t, u) ==
    /\ u.idx \in { t.idx, t.idx + 1 }
    /\ u.idx = t.idx + 1 => t.st = "exec"
    /\ t.st = "failed" => (u.st = "failed" /\ u.idx = t.idx)

\* C30: the statements of a script are executed one after the other in
\* the order of the body: statement i+1 is issued only after statement i
\* has completed, after a failing statement no later statement of the
\* script is issued, and a segment of the split on ';' that is empty or
\* whitespace only is never sent
C30_SequentialStatements ==
    /\ [](\A p \in Procs : \A t \in Scripts(p) :
              IssuesInBodyOrder(t) /\ CompletesEveryStatement(t))
    /\ [][\A p \in Procs : \A t \in Scripts(p) : \A u \in Scripts(p)' :
              SameScript(t, u) => OneStatementAtATime(t, u)]_vars

\* the second statement of a body whose split has an empty last segment and
\* a segment of one space is about to be issued, after the first
C30_Witness ==
    \E p \in Procs : \E t \in Scripts(p) :
        /\ t.st = "exec" /\ t.idx = 1
        /\ \E k \in 1..Len(SplitCommands(t.fileBody)) :
              SplitCommands(t.fileBody)[k] = << " " >>
        /\ SplitCommands(t.fileBody)[Len(SplitCommands(t.fileBody))] = << >>

(***************************************************************************)
(* Properties of the check of schema agreement.                            *)
(***************************************************************************)
\* the schema versions the rows of a probe report
ReportedVersions(probe) ==
    { probe.local[k].schema_version[1] :
        k \in { j \in 1..Len(probe.local) : probe.local[j].schema_version # Null } }
    \cup
    { probe.peers[k].schema_version[1] :
        k \in { j \in 1..Len(probe.peers) : probe.peers[j].schema_version # Null } }

\* the local row of the probe has a schema version
LocalVersion(probe) ==
    Len(probe.local) > 0 /\ probe.local[1].schema_version # Null

\* the nodes of the probe agree
Agreeing(probe) == LocalVersion(probe) /\ Cardinality(ReportedVersions(probe)) <= 1

\* the check of p over probe returns true in this step: the wait returns
ReturnsTrue(p, probe) ==
    CheckSchemaAgreement(p, probe) /\ agreedAfter'[p] # agreedAfter[p]

\* the check of p over probe returns false in this step: the wait polls again
ReturnsFalse(p, probe) ==
    CheckSchemaAgreement(p, probe) /\ UNCHANGED << pc, memVars, caught >>

\* C31: over the rows its two queries return, checkSchemaAgreement returns
\* true if and only if the local row has a schema version and the versions
\* reported by the local row and by all rows of the peers table are at most
\* one; without a local row or a local version it returns false
C31_TrueIffOneVersion ==
    [][\A p \in Procs : \A probe \in Probes :
          (CheckSchemaAgreement(p, probe) /\ ~ probe.fails) =>
              /\ ReturnsTrue(p, probe) <=> Agreeing(probe)
              /\ ~ LocalVersion(probe) => ReturnsFalse(p, probe)]_vars

(***************************************************************************)
(* Properties of the discovery.                                            *)
(***************************************************************************)
\* what a script is: its class and its coordinates
Coordinates(t) == << t.kind, t.keyspace, t.service, t.file >>

\* the files of the tree that are bootstraps and migrations by their depth
\* under the root (the number of directories of the path), as the scripts
\* they are
BootstrapsByDepth ==
    { << "bootstrap", path.dir[1], "", path.base >> :
        path \in { f \in tree : Len(f.dir) = 1 /\ f.base = bootstrapFilename } }

MigrationsByDepth ==
    { << "migration", path.dir[1], path.dir[2], path.base >> :
        path \in { f \in tree : Len(f.dir) = 2 } }

\* loadFiles of p returns in this step
Loads(p) == pc[p] = "load" /\ pc'[p] \notin { "load", "killed", "releaseErr" }

\* the number of migrations in the lists of p
PendingCount(p) ==
    LET RECURSIVE Sum(_)
        Sum(k) == IF k = 0 THEN 0 ELSE Len(migrations[p][k].list) + Sum(k - 1)
    IN  Sum(Len(migrations[p]))

\* C32: discovery classifies a file by its depth alone: when loadFiles
\* returns, the bootstraps it has made are the files at depth 1 with the
\* name of the bootstrap, the migrations are the files at depth 2, whatever
\* their name, each once and with keyspace, service and file the segments
\* 0, 1 and 2 of its path, and no other file has been made a script
C32_ClassifiedByDepth ==
    [][\A p \in Procs : Loads(p) =>
          /\ { Coordinates(t) : t \in tasks'[p] } = BootstrapsByDepth
          /\ { Coordinates(m) : m \in Pending(p)' } = MigrationsByDepth
          /\ PendingCount(p)' = Cardinality(MigrationsByDepth)]_vars

\* a file with the name of the bootstrap at depth 2 is loaded as a
\* migration, beside a file that is ignored
C32_Witness ==
    \E p \in Procs : \E m \in Pending(p) :
        /\ Coordinates(m) = << "migration", "foo", "s1", bootstrapFilename >>
        /\ Cardinality(tree) = 3
        /\ PendingCount(p) = 1
        /\ tasks[p] = { }
        /\ pc[p] = "bootstrapAgree"

(***************************************************************************)
(* Properties of the order of the discovery.                               *)
(***************************************************************************)
\* the rounds a mapping of services to lists gives: round k has the k-th
\* migration of every list that has one
RoundsOf(map) ==
    LET longest == IF Len(map) = 0 THEN 0
                   ELSE CHOOSE n \in 0..Cardinality(tree) :
                            /\ \A k \in 1..Len(map) : Len(map[k].list) <= n
                            /\ \E k \in 1..Len(map) : Len(map[k].list) = n
    IN  [n \in 1..longest |->
            { Coordinates(map[k].list[n]) :
                k \in { j \in 1..Len(map) : Len(map[j].list) >= n } }]

\* what the rest of the run takes from loadFiles: whether it threw, the
\* bootstraps, and the migrations of each round
Loaded(ord, raw) ==
    LET r == loadFiles(ord, migrationsTable, Disk(tree, raw))
    IN  [failed |-> r.failed,
         bootstraps |-> IF r.failed THEN { }
                        ELSE { Coordinates(r.bootstraps[k]) : k \in 1..Len(r.bootstraps) },
         rounds |-> IF r.failed THEN << >> ELSE RoundsOf(r.migrations)]

\* a run about to load its files gets the same from every order in which
\* the files are found
SameFromEveryOrder ==
    (\E p \in Procs : pc[p] = "load") =>
        \A raw \in RawBodies : \A ord1, ord2 \in getFilePaths(tree) :
            Loaded(ord1, raw) = Loaded(ord2, raw)

\* the loop of applyMigrations begins a round of p in this step
BeginsRound(p) == round'[p] = round[p] + 1

\* the round begun is the first of the rounds the mapping gives, whatever
\* the order of its keys, and the rounds that follow are left
RoundByRound(p) ==
    BeginsRound(p) =>
        /\ { Coordinates(t) : t \in { u \in tasks'[p] : u.round = round'[p] } }
              = RoundsOf(migrations[p])[1]
        /\ RoundsOf(migrations[p])' = Tail(RoundsOf(migrations[p]))

\* C33: the order in which the services and the files were discovered
\* does not affect behaviour: with the same files and the same tables every
\* order gives the same bootstraps and the same migrations in the same
\* rounds, and the rounds are applied as given, whatever the order of the
\* keys
C33_OrderOfDiscovery ==
    /\ []SameFromEveryOrder
    /\ [][\A p \in Procs : RoundByRound(p)]_vars

(***************************************************************************)
(* Properties of insert.                                                   *)
(***************************************************************************)
\* the call of insert has ended
Inserted == insertion # Null /\ insertion.result # Null

\* the pieces of the query executed between the pieces from and to
Between(from, to) ==
    LET q == insertion.result[1].executed[1].query
    IN  SubSeq(q, (CHOOSE k \in 1..Len(q) : q[k] = from) + 1,
                  (CHOOSE k \in 1..Len(q) : q[k] = to) - 1)

\* the columns of the query executed, none if none was
ColumnsSent ==
    IF insertion.result[1].executed = Null THEN << >>
    ELSE SelectSeq(Between(" (", ") VALUES ("), LAMBDA x : x \notin { ",", "\"" })

\* the placeholders of the query executed
PlaceholdersSent ==
    IF insertion.result[1].executed = Null THEN << >>
    ELSE SelectSeq(Between(") VALUES (", ")"), LAMBDA x : x # ",")

\* the keys of the fields of the record whose value is of none of kinds,
\* in the order of the fields
KeysWithout(kinds) ==
    LET kept == SelectSeq(insertion.record, LAMBDA f : f.value.kind \notin kinds)
    IN  [k \in 1..Len(kept) |-> kept[k].key]

\* the columns are the fields without those of kinds, each once and in the
\* order of the fields, with as many placeholders and parameters, and a
\* record that has no such field makes insert throw and execute nothing
Skips(kinds) ==
    Inserted =>
        /\ ColumnsSent = KeysWithout(kinds)
        /\ PlaceholdersSent = [k \in 1..Len(ColumnsSent) |-> "?"]
        /\ insertion.result[1].executed # Null =>
              Len(insertion.result[1].executed[1].params) = Len(ColumnsSent)
        /\ KeysWithout(kinds) = << >> <=>
              (insertion.result[1].thrown # Null /\ insertion.result[1].executed = Null)
        /\ insertion.result[1].thrown = Null <=> insertion.result[1].executed # Null

LiteralEnds(s, i) ==
    { e \in (i + 1)..Len(s) :
        /\ s[e] = s[i]
        /\ \A k \in (i + 1)..(e - 1) :
              s[k] = s[i] =>
                  Cardinality({ m \in (i + 1)..(e - 1) :
                      \A n \in (IF m < k THEN m ELSE k)..(IF m < k THEN k ELSE m) :
                          s[n] = s[i] }) % 2 = 0 }

\* the places at which a block comment that opens at place i of s can close
BlockEnds(s, i) ==
    { e \in (i + 3)..Len(s) : s[e - 1] = "*" /\ s[e] = "/" }

\* the last place of the run of characters of class cls from place i of s
RunTo(s, i, cls) ==
    CHOOSE e \in i..Len(s) :
        /\ \A k \in i..e : s[k] \in cls
        /\ e < Len(s) => s[e + 1] \notin cls

\* the class and the last place of the token that begins at place i of s,
\* by the order of the classes: string, comment, uuid, whitespace, symbol,
\* identifier or value
ByPriority(s, i) ==
    LET two(a, b) == i < Len(s) /\ s[i] = a /\ s[i + 1] = b
        Greatest(S) == CHOOSE e \in S : \A f \in S : f <= e
        Least(S) == CHOOSE e \in S : \A f \in S : e <= f
        NotEnd == { c \in { s[k] : k \in 1..Len(s) } : c \notin LineTerminators }
    IN  IF s[i] \in { "'", "\"" } /\ LiteralEnds(s, i) # { }
        THEN << "string", Greatest(LiteralEnds(s, i)) >>
        ELSE IF two("/", "*") /\ BlockEnds(s, i) # { }
        THEN << "comment", Least(BlockEnds(s, i)) >>
        ELSE IF two("/", "/") \/ two("-", "-")
        THEN << "comment", IF s[i + 1] \in NotEnd THEN RunTo(s, i + 1, NotEnd) ELSE i + 1 >>
        ELSE IF /\ i + 35 <= Len(s)
                /\ \A k \in 0..35 : IF k \in { 8, 13, 18, 23 } THEN s[i + k] = "-"
                                     ELSE s[i + k] \in HexChars
        THEN << "uuid", i + 35 >>
        ELSE IF s[i] \in SpaceChars THEN << "whitespace", RunTo(s, i, SpaceChars) >>
        ELSE IF s[i] \notin WordChars THEN << "symbol", i >>
        ELSE << "identifierOrValue", RunTo(s, i, WordChars) >>

\* every token of s is of the first class that matches where it begins
FirstMatchingClass(s) ==
    \A j \in 1..Len(Spans(s)) :
        << Spans(s)[j].type, Spans(s)[j].to >> = ByPriority(s, Spans(s)[j].from)

\* text is a part of body
PartOf(text, body) ==
    \E o \in 0..(Len(body) - Len(text)) : SubSeq(body, o + 1, o + Len(text)) = text

\* the string literals of the content are in the canonical form the run
\* that loaded it has made, as they are
LiteralsKept ==
    reloaded # Null =>
        \A j \in 1..Len(Spans(cqlNow)) :
            Spans(cqlNow)[j].type = "string" =>
                PartOf(SubSeq(cqlNow, Spans(cqlNow)[j].from, Spans(cqlNow)[j].to),
                       reloaded[1].fileBody)

\* C35: at each position the lexer takes the first class that matches, in
\* the order string, comment, uuid, whitespace, symbol, identifier or
\* value: whitespace, newlines, doubled quotes and comment markers inside a
\* string literal stay in the one string token, which is in the canonical
\* form as it is, and the delimiters of a block comment inside a line
\* comment, like the markers of a line comment inside a block comment, stay
\* in the comment
C35_TokenClassPriority == FirstMatchingClass(cqlNow) /\ LiteralsKept

\* the content whose one token is a string literal with whitespace, a
\* comment marker and a doubled quote in it has been loaded
C35_Witness ==
    /\ cqlNow = << "'", " ", "-", "-", "'", "'", "a", "'" >>
    /\ Len(Spans(cqlNow)) = 1
    /\ reloaded # Null /\ reloaded[1].fileBody = cqlNow


(***************************************************************************)
(* One release per run.                                                    *)
(***************************************************************************)
\* C36: Lock.release() is issued at most once per run: the step in which a
\* release of a process returns, with true or with false, ends its run
\* (process.exit, or the return of start()); the process is not left at
\* another releaseLockAndExit, whose release could end the run with another
\* exit code
C36_ReleaseAtMostOnce ==
    [][\A p \in Procs :
          ReleaseReturns(p) => /\ Ended(pc'[p])
                               /\ ~ AtRelease(p)']_vars


(***************************************************************************)
(* Properties of the loop of applyMigrations.                              *)
(***************************************************************************)
\* the length of the longest list of the mapping loadFiles makes of the
\* files
LongestList ==
    LET ord == CHOOSE o \in getFilePaths(tree) : TRUE
    IN  Len(RoundsOf(loadFiles(ord, { }, Disk(tree, RawA)).migrations))

\* applyMigrations of p has returned: its loop found the mapping empty
LoopEnded(p) == pc[p] = "releaseEnd" /\ caught[p] = Null

\* between loadFiles and the end of the loop
InLoop(p) == pc[p] \in { "bootstrapping", "bootstrapAgree", "round", "roundAgree" }

\* the heads of the lists of the mapping of p
Heads(p) == { Head(migrations[p][k].list) : k \in 1..Len(migrations[p]) }

\* the services that are keys of the mapping of p
Keys(p) == { migrations[p][k].service : k \in 1..Len(migrations[p]) }

\* the passes made and the passes left are the length of the longest list;
\* no key of the mapping has an empty list; at the end the passes made are
\* that length and the mapping is empty
RoundsCounted ==
    \A p \in Procs :
        /\ InLoop(p) =>
              /\ round[p] + Len(RoundsOf(migrations[p])) = LongestList
              /\ \A k \in 1..Len(migrations[p]) : Len(migrations[p][k].list) > 0
        /\ LoopEnded(p) => round[p] = LongestList /\ migrations[p] = << >>

\* a pass calls apply() for the head of every list, once, and takes it
\* from the mapping; a key goes exactly when its list had one migration;
\* outside the head of the loop no migration leaves or enters the mapping
\* while the loop runs
ShiftsEveryHead(p) ==
    /\ BeginsRound(p) =>
          LET begun == { t \in tasks'[p] : t.round = round'[p] }
          IN  /\ { Coordinates(t) : t \in begun } = { Coordinates(m) : m \in Heads(p) }
              /\ Cardinality(begun) = Len(migrations[p])
              /\ PendingCount(p)' = PendingCount(p) - Len(migrations[p])
              /\ { Coordinates(m) : m \in Pending(p)' }
                    = { Coordinates(m) : m \in Pending(p) }
                         \ { Coordinates(m) : m \in Heads(p) }
              /\ \A k \in 1..Len(migrations[p]) :
                    migrations[p][k].service \in Keys(p)'
                        <=> Len(migrations[p][k].list) > 1
              /\ Keys(p)' \subseteq Keys(p)
    /\ (InLoop(p) /\ InLoop(p)' /\ ~ BeginsRound(p)) =>
          migrations'[p] = migrations[p]

\* nothing fails in the one run: it is not killed, no apply throws and
\* start() catches nothing
NothingFails ==
    /\ pc[Run] # "killed" /\ caught[Run] = Null /\ ~ migrationFailed[Run]
    /\ \A t \in tasks[Run] : t.st # "failed"

\* a query of an apply in flight of the one run returns
ApplyGoesOn ==
    \E t \in tasks[Run], ok \in BOOLEAN :
        FirstSave(Run, t, ok) \/ ExecCommand(Run, t, ok) \/ SecondSave(Run, t, ok)

\* C37: the round loop terminates. The loop runs as many rounds as the
\* longest list of a service, each round calls apply() once for the head of
\* every list and removes it, a service leaves the mapping exactly when
\* its list becomes empty, and the loop ends with the mapping empty; when
\* no apply fails, every query returns and agreement is reached and kept,
\* a run that has loaded its files comes to the end of the loop
C37_RoundLoopTerminates ==
    /\ []RoundsCounted
    /\ [][\A p \in Procs : ShiftsEveryHead(p)]_vars
    /\ ([]NothingFails /\ <>[](agreement = "true") /\ WF_vars(ApplyGoesOn)) =>
          (InLoop(Run) ~> LoopEnded(Run))

\* the loop of a run has ended after two rounds, the three migrations in
\* the table as applied
C37_Witness ==
    /\ LoopEnded(Run) /\ round[Run] = 2 /\ LongestList = 2
    /\ Cardinality({ r \in migrationsTable : r.success = TRUE }) = 3


(***************************************************************************)
(* Properties of the rows written by the applies of one phase.             *)
(***************************************************************************)
\* what decides the row save() of a script writes: the primary key
\* (keyspace_name, service, file) of a migration, the partition
\* keyspace_name of a bootstrap
RowKey(t) ==
    IF t.kind = "migration" THEN << t.keyspace, t.service, t.file >>
    ELSE << t.keyspace >>

\* the applies of p in flight are of one phase and no two of them write
\* the same row
InFlightApart(p) ==
    \A t, u \in InFlight(tasks[p]) :
        t # u => t.kind = u.kind /\ RowKey(t) # RowKey(u)

\* the bootstraps loadFiles of p is about to return, all applied at once,
\* are of different keyspaces
BootstrapsApart(p) ==
    pc[p] = "load" =>
        \A ord \in getFilePaths(tree), raw \in RawBodies :
            LET r == loadFiles(ord, migrationsTable, Disk(tree, raw))
            IN  ~ r.failed =>
                    \A j, k \in 1..Len(r.bootstraps) :
                        j # k => RowKey(r.bootstraps[j]) # RowKey(r.bootstraps[k])

\* the heads of the lists of p, applied at once by the next pass, have
\* different keys
HeadsApart(p) ==
    \A j, k \in 1..Len(migrations[p]) :
        j # k => RowKey(Head(migrations[p][j].list)) # RowKey(Head(migrations[p][k].list))

\* C38: no write-write race inside a parallel phase: two applies of a run
\* that are in flight at the same time, two heads of one round or two
\* bootstraps, write different rows: the keys (keyspace, service, file) of
\* the migrations differ, and so do the keyspaces of the bootstraps
C38_NoWriteWriteRace ==
    \A p \in Procs : InFlightApart(p) /\ BootstrapsApart(p) /\ HeadsApart(p)

\* two migrations of one round, files of the same name, are both between
\* their two writes, after two bootstraps were
C38_Witness ==
    \E p \in Procs : \E t, u \in MigrationsOf(p) :
        /\ pc[p] = "round" /\ t.round = round[p] /\ u.round = round[p]
        /\ t.keyspace # u.keyspace /\ t.file = u.file
        /\ ~ Settled(t) /\ BetweenWrites(t)
        /\ ~ Settled(u) /\ BetweenWrites(u)
        /\ Cardinality({ r.keyspace_name : r \in bootstrapsTable }) = 2


(***************************************************************************)
(* Properties of the rows of the migrations that were applied.             *)
(***************************************************************************)
\* the rows of the migrations with success = true
AppliedRows == { r \in migrationsTable : r.success = TRUE }

\* a row with success = true stays as it is: no step writes it again
RowStaysApplied == \A r \in AppliedRows : r \in migrationsTable'

\* no apply of a migration whose row has success = true is in flight: none
\* has issued a save or executes a statement
NoApplyOfApplied ==
    \A p \in Procs : \A t \in MigrationsOf(p) :
        ~ Settled(t) => \A r \in RowsOf(migrationsTable, t) : r.success # TRUE

\* an apply that was made for a migration found with success = true has
\* executed no statement
NoStatementOfApplied ==
    \A p \in Procs : \A t \in MigrationsOf(p) :
        HydratedApplied(t) => t.idx = 0 /\ t.st \in { "skipped", "failed" }

\* C39: a successfully applied migration is final: once a row of the
\* migrations has success = true no step of any run writes that row again,
\* and no run that finds it executes a statement of that migration,
\* whether the file has changed or not
C39_AppliedIsFinal ==
    /\ [](NoApplyOfApplied /\ NoStatementOfApplied)
    /\ [][RowStaysApplied]_vars

\* after a run that ended without an error, a second run finds the row of
\* a migration whose file has changed since, and its apply has failed on
\* the checksum, and it has skipped another whose file has not
C39_Witness ==
    \E p, q \in Procs : \E t, u \in MigrationsOf(p) :
        /\ pc[q] = "exited" /\ caught[q] = Null
        /\ HydratedApplied(t) /\ t.failedAt = "checksum"
        /\ HydratedApplied(u) /\ u.st = "skipped"
        /\ \E r \in RowsOf(migrationsTable, t) :
              r.success = TRUE /\ r.checksum # getCqlChecksum(t.fileBody)


(***************************************************************************)
(* Properties of the tokens as a whole.                                    *)
(***************************************************************************)
\* the values of the tokens one after the other
Concatenated(toks) ==
    LET RECURSIVE Cat(_)
        Cat(k) == IF k > Len(toks) THEN << >> ELSE toks[k].value \o Cat(k + 1)
    IN  Cat(1)

\* the lex of text succeeds, every token has at least one character and a
\* class of the lexer, and the values of all tokens give back the text
TotalAndLossless(text) ==
    LET toks == getTokens(text, { })
    IN  /\ \A k \in 1..Len(toks) :
              /\ toks[k].type \in { "string", "comment", "uuid", "whitespace",
                                    "symbol", "identifierOrValue" }
              /\ Len(toks[k].value) > 0
        /\ Concatenated(toks) = text
        /\ Len(Spans(text)) = Len(toks)
        /\ \A k \in 1..Len(toks) :
              toks[k].value = SubSeq(text, Spans(text)[k].from, Spans(text)[k].to)

\* C40: the tokenizer is total and lossless: the lex of every text
\* succeeds, every character being matched by the rule of some class, and
\* the values of all its tokens, comments and whitespace included, joined
\* with nothing between them, are the text
C40_TotalAndLossless ==
    TotalAndLossless(cqlBefore) /\ TotalAndLossless(cqlNow)

\* a text with a quote that opens no literal, whitespace, a comment and a
\* word has been lexed: four tokens, the quote a symbol
C40_Witness ==
    /\ reloaded # Null
    /\ Len(getTokens(cqlNow, { })) >= 4
    /\ \E k \in 1..Len(cqlNow) :
          /\ cqlNow[k] = "'"
          /\ \E j \in 1..Len(Spans(cqlNow)) :
                Spans(cqlNow)[j] = [type |-> "symbol", from |-> k, to |-> k]
    /\ \A c \in { "comment", "whitespace", "identifierOrValue" } :
          \E j \in 1..Len(Spans(cqlNow)) : Spans(cqlNow)[j].type = c

====
